---- MODULE Spec2Model ----
(***************************************************************************)
(* State-machine model of the optimistic client-side synchronisation layer *)
(* of the CEA command center (App.tsx handlers, the mapper functions, and  *)
(* the UI call sites that invoke the handlers).                            *)
(*                                                                         *)
(* Strings whose content matters (titles) are sequences of one-character   *)
(* strings.  Ids are pairs <<kind, n>>.  "undefined" is NoStr / NoId.      *)
(***************************************************************************)
EXTENDS Integers, Sequences, FiniteSets, TLC

VARIABLES
  tasks,            \* useState<Task[]>
  projects,         \* useState<Project[]>
  goals,            \* useState<Goal[]>
  featureRequests,  \* useState<FeatureRequest[]>
  agents,           \* useState<Agent[]>
  activity,         \* useState<ActivityItem[]>, most recent first
  messages,         \* useState<Message[]>
  threadId,         \* useState<string | undefined>
  isLive,           \* useState(false)
  loading,          \* useState(true)
  boot,             \* position of loadData: "fetching", "ok", "failed"
  inflight,         \* handlers suspended at their await, in order of issue
  timers,           \* pending setTimeout callbacks
  remote,           \* every request handed to the Remote Gateway so far
  minted,           \* number of ids the remote store has assigned
  now,              \* Date.now()
  ops,              \* number of user operations performed
  last,             \* the most recent step of the program: operation, target, inputs
  strategy,         \* Strategy component state: editingProgress, progressValue
  requested,        \* history: per task id, the statuses asked for, in order
  currentView,      \* useState<ViewType>('dashboard')
  selectedProjectId, \* useState<string | null>(null)
  selectedAgentId   \* useState<string | null>(null)

vars == <<tasks, projects, goals, featureRequests, agents, activity, messages,
          threadId, isLive, loading, boot, inflight, timers, remote, minted,
          now, ops, last, strategy, requested, currentView, selectedProjectId,
          selectedAgentId>>

(***************************************************************************)
(* Bounds of the model.                                                    *)
(***************************************************************************)
MaxOps == 2
MaxClock == 1

(***************************************************************************)
(* Sequence helpers (Array.prototype.map / filter / find).                 *)
(***************************************************************************)
MapSeq(s, F(_)) == [i \in 1..Len(s) |-> F(s[i])]

Prepend(x, s) == <<x>> \o s

RemoveAt(s, i) == SubSeq(s, 1, i - 1) \o SubSeq(s, i + 1, Len(s))

HasId(s, id) == \E i \in 1..Len(s) : s[i].id = id

\* Array.prototype.find by id: the first match (the caller tests HasId first)
Find(s, id) == s[CHOOSE i \in 1..Len(s) :
                   s[i].id = id /\ \A j \in 1..(i - 1) : s[j].id # id]

Ids(s) == {s[i].id : i \in 1..Len(s)}

Min(a, b) == IF a < b THEN a ELSE b
Max(a, b) == IF a < b THEN b ELSE a

\* { ...t, ...u }: u's fields override t's
Merge(t, u) == [f \in (DOMAIN t) \cup (DOMAIN u) |->
                  IF f \in DOMAIN u THEN u[f] ELSE t[f]]

(***************************************************************************)
(* undefined                                                               *)
(***************************************************************************)
NoStr == <<"undefined">>
NoId == <<"undefined", 0>>
NoTok == "undefined"

(***************************************************************************)
(* Characters and the two regular expressions on project titles.           *)
(***************************************************************************)
Lower == <<"a","b","c","d","e","f","g","h","i","j","k","l","m",
           "n","o","p","q","r","s","t","u","v","w","x","y","z">>
Upper == <<"A","B","C","D","E","F","G","H","I","J","K","L","M",
           "N","O","P","Q","R","S","T","U","V","W","X","Y","Z">>
Digits == {"0","1","2","3","4","5","6","7","8","9"}

\* \w
IsWord(c) == c \in {Lower[i] : i \in 1..26} \cup {Upper[i] : i \in 1..26}
                   \cup Digits \cup {"_"}
\* \s (the whitespace the model's inputs use)
IsSpace(c) == c \in {" ", "\t", "\n"}

ToUpperChar(c) ==
  IF \E i \in 1..26 : Lower[i] = c
  THEN Upper[CHOOSE i \in 1..26 : Lower[i] = c]
  ELSE c

\* String.prototype.toUpperCase
ToUpperCase(s) == [i \in 1..Len(s) |-> ToUpperChar(s[i])]

\* String.prototype.substring(0, n)
Substring0(s, n) == SubSeq(s, 1, Min(n, Len(s)))

\* number of consecutive characters of s, from position i on, that satisfy P
\* (the greedy match of P* at i)
Run(s, i, P(_)) ==
  Cardinality({k \in 1..(Len(s) - i + 1) : \A j \in i..(i + k - 1) : P(s[j])})

\* String.prototype.trim
RECURSIVE TrimLeft(_)
TrimLeft(s) ==
  IF s # <<>> /\ IsSpace(Head(s)) THEN TrimLeft(Tail(s)) ELSE s
RECURSIVE TrimRight(_)
TrimRight(s) ==
  IF s # <<>> /\ IsSpace(s[Len(s)])
  THEN TrimRight(SubSeq(s, 1, Len(s) - 1)) ELSE s
Trim(s) == TrimRight(TrimLeft(s))

StartsWithPR(s) == Len(s) >= 3 /\ s[1] = "P" /\ s[2] = "R" /\ s[3] = "."

\* title.match(/^PR\.(\w+)/)?.[1]  -- <<>> stands for "no match" (falsy, like '')
MatchShortCode(title) ==
  IF StartsWithPR(title) /\ Run(title, 4, IsWord) >= 1
  THEN SubSeq(title, 4, 3 + Run(title, 4, IsWord))
  ELSE <<>>

\* title.replace(/^PR\.\w+\s*\|\s*/, '')
StripPrefix(title) ==
  IF StartsWithPR(title) /\ Run(title, 4, IsWord) >= 1
  THEN LET w   == Run(title, 4, IsWord)
           s1  == Run(title, 4 + w, IsSpace)
           bar == 4 + w + s1
       IN IF bar <= Len(title) /\ title[bar] = "|"
          THEN SubSeq(title, bar + 1 + Run(title, bar + 1, IsSpace), Len(title))
          ELSE title
  ELSE title

(***************************************************************************)
(* Types (types.ts) and sentinels.                                         *)
(***************************************************************************)
Statuses == {"pending", "in_progress", "review", "completed"}
Tiger == <<"tiger", 0>>          \* the operator sentinel 'tiger'
Cea == <<"cea", 0>>              \* the assignee 'cea'
\* title.substring(0, 80)
TitleCut == 80

(***************************************************************************)
(* Mapper layer.                                                           *)
(***************************************************************************)
\* Faulty variant of MapPriority: the map has no entry for 5.
MapPriority_NoFive(code) ==
  CASE code = 1 -> "critical"
    [] code = 2 -> "high"
    [] code = 3 -> "medium"
    [] code = 4 -> "low"
    [] OTHER -> "medium"

\* priorityMap[t.priority] || 'medium'   (any code outside 1..5: not in the map)
MapPriority(code) ==
  CASE code = 1 -> "critical"
    [] code = 2 -> "high"
    [] code = 3 -> "medium"
    [] code = 4 -> "low"
    [] code = 5 -> "low"
    [] OTHER -> "medium"

\* Faulty variant of MapStatus: the "|| 'pending'" default is missing, so an
\* unknown token passes through.
MapStatus_NoDefault(token) ==
  CASE token = "todo" -> "pending"
    [] token = "in_progress" -> "in_progress"
    [] token = "done" -> "completed"
    [] token = "failed" -> "review"
    [] OTHER -> token

\* statusMap[t.status] || 'pending'
MapStatus(token) ==
  CASE token = "todo" -> "pending"
    [] token = "in_progress" -> "in_progress"
    [] token = "done" -> "completed"
    [] token = "failed" -> "review"
    [] OTHER -> "pending"

\* Faulty variant of SerializeStatus: review has no entry in the map and is
\* sent as it is.
SerializeStatus_ReviewKept(status) ==
  CASE status = "pending" -> "todo"
    [] status = "in_progress" -> "in_progress"
    [] status = "completed" -> "done"
    [] OTHER -> status

\* local -> remote status, statusMap[status] || status
SerializeStatus(status) ==
  CASE status = "pending" -> "todo"
    [] status = "in_progress" -> "in_progress"
    [] status = "review" -> "in_progress"
    [] status = "completed" -> "done"
    [] OTHER -> status

\* x || undefined on a string
OrUndefined(s) == IF s = <<>> THEN NoStr ELSE s

mapAgent(a) ==
  [id |-> a.id, name |-> a.functional_name, role |-> a.handle,
   status |-> IF a.is_active THEN "active" ELSE "idle"]

mapTask(t, rawAgents, rawProjects) ==
  LET hasAgent   == HasId(rawAgents, t.assigned_to)
      hasProject == HasId(rawProjects, t.project_id)
      shortCode  == IF hasProject
                    THEN MatchShortCode(Find(rawProjects, t.project_id).title)
                    ELSE <<>>
      cut        == Substring0(t.description, TitleCut)
  IN [id               |-> t.id,
      title            |-> IF cut = <<>> THEN <<"U","n","t","i","t","l","e","d">>
                           ELSE cut,
      description      |-> t.description,
      assignedTo       |-> IF hasAgent
                           THEN IF Find(rawAgents, t.assigned_to).handle = "@CEA"
                                THEN Cea ELSE t.assigned_to
                           ELSE Tiger,
      assignedBy       |-> Cea,
      priority         |-> MapPriority(t.priority),
      status           |-> MapStatus(t.status),
      projectId        |-> t.project_id,
      projectName      |-> IF hasProject
                           THEN StripPrefix(Find(rawProjects, t.project_id).title)
                           ELSE NoStr,
      projectShortCode |-> OrUndefined(shortCode),
      parentTaskId     |-> t.parent_task_id]

\* departments are not modelled; the counts are taken from the raw tasks of
\* the same dashboard answer
mapProject(p, rawTasks) ==
  LET projectTasks   == {i \in 1..Len(rawTasks) : rawTasks[i].project_id = p.id}
      completedTasks == {i \in projectTasks : rawTasks[i].status = "done"}
  IN [id             |-> p.id,
      title          |-> p.title,
      shortCode      |-> IF MatchShortCode(p.title) # <<>>
                         THEN MatchShortCode(p.title)
                         ELSE Substring0(p.title, 4),
      status         |-> IF p.status = NoTok THEN "active" ELSE p.status,
      description    |-> IF p.description = <<>> THEN NoStr ELSE p.description,
      taskCount      |-> Cardinality(projectTasks),
      completedTaskCount |-> Cardinality(completedTasks),
      parentProjectId |-> p.parent_project_id]

\* g.progress || 0: a missing progress is modelled as 0
mapGoal(g) ==
  [id |-> g.id, title |-> g.title, progress |-> g.progress,
   status |-> IF g.status = NoTok THEN "on-track" ELSE g.status]

\* the detail of a remote activity row is kept whole in title
mapActivity(a) ==
  [id |-> a.id, agent |-> IF a.agent_handle = NoTok THEN "System" ELSE a.agent_handle,
   action |-> a.action, title |-> a.detail, changes |-> <<>>,
   type |-> a.action_type]

mapMessage(m) ==
  [id |-> m.id, from |-> IF m.from_type = "human" THEN "tiger" ELSE "cea",
   type |-> m.message_type]

(***************************************************************************)
(* Titles the model's inputs use.                                          *)
(***************************************************************************)
TitleGrowth == <<"P","R",".","G","W"," ","|"," ","Q","1">>   \* "PR.GW | Q1"
TitleDraft == <<"D","r">>
TitleEdited == <<"E","d">>
TitleBlank == <<" ">>
TitlePadded == <<" ","D","r">>

(***************************************************************************)
(* Mock data of data.ts (initialTasks, initialProjects, ...).              *)
(***************************************************************************)
InitialAgents ==
  << [id |-> Cea, name |-> "The CEA", role |-> "@CEA", status |-> "active"],
     [id |-> <<"agent", 0>>, name |-> "Growth Lead", role |-> "@Growth_Lead",
      status |-> "idle"] >>

InitialProjects ==
  << [id |-> <<"mock-p", 1>>, title |-> TitleGrowth, shortCode |-> <<"G","W">>,
      status |-> "active", description |-> NoStr, taskCount |-> 1,
      completedTaskCount |-> 0, parentProjectId |-> NoId] >>

InitialTasks ==
  << [id |-> <<"mock-t", 1>>, title |-> <<"M","o","c","k">>,
      description |-> <<"M","o","c","k">>, assignedTo |-> Tiger,
      assignedBy |-> Cea, priority |-> "medium", status |-> "pending",
      projectId |-> <<"mock-p", 1>>, projectName |-> <<"Q","1">>,
      projectShortCode |-> <<"G","W">>, parentTaskId |-> NoId] >>

InitialActivity ==
  << [id |-> <<"mock-a", 1>>, agent |-> "The CEA", action |-> "Updated",
      title |-> <<"M","o","c","k">>, changes |-> <<>>, type |-> "report"] >>

InitialMessages ==
  << [id |-> <<"mock-m", 1>>, from |-> "cea", type |-> "message"] >>

(***************************************************************************)
(* Records of the steps, the gateway requests and the suspended handlers.  *)
(***************************************************************************)
\* A request handed to the Remote Gateway: the action, the id it targets and
\* the status / thread token it carries (the other payload fields are not
\* modelled).
Request(op, id, tok) == [op |-> op, id |-> id, tok |-> tok]

\* An ActivityItem synthesized locally; its id is `a${Date.now()}`.
Item(agent, action, title, changes, type) ==
  [id |-> <<"a", now>>, agent |-> agent, action |-> action, title |-> title,
   changes |-> changes, type |-> type]

TigerItem(action, title, changes) == Item("Tiger", action, title, changes, "task")

\* The closure a handler captured when it was invoked: whether its
\* collection.find(id) found the entity, and the title it read from it.
Closure(coll, id) ==
  [found |-> HasId(coll, id),
   title |-> IF HasId(coll, id) THEN Find(coll, id).title ELSE NoStr]

(***************************************************************************)
(* Initial state: the state of AuthenticatedApp after its first render,    *)
(* loadData started and awaiting fetchDashboard; pending holds the other   *)
(* fetches started on mount.                                               *)
(***************************************************************************)
Mounted(pending) ==
  /\ tasks = InitialTasks
  /\ projects = InitialProjects
  /\ goals = <<>>
  /\ featureRequests = <<>>
  /\ agents = InitialAgents
  /\ activity = InitialActivity
  /\ messages = InitialMessages
  /\ threadId = NoId
  /\ isLive = FALSE
  /\ loading = TRUE
  /\ boot = "fetching"
  /\ inflight = pending
  /\ timers = <<>>
  /\ remote = {}
  /\ minted = 0
  /\ now = 0
  /\ ops = 0
  /\ last = [op |-> "init"]
  /\ strategy = [editingProgress |-> NoId, progressValue |-> 0]
  /\ requested = <<>>
  /\ currentView = "dashboard"
  /\ selectedProjectId = NoId
  /\ selectedAgentId = NoId

\* the second mount effect, loadFeatureRequests, awaiting fetchFeatureRequests
FeatureRequestsFetch == [op |-> "loadFeatureRequests", id |-> NoId]

\* The slices that have no idea handlers leave the idea list, and with it the
\* fetch that fills it, out.
Init == Mounted(<<>>)

InitAll == Mounted(<<FeatureRequestsFetch>>)

(***************************************************************************)
(* Bootstrap: loadData.                                                    *)
(***************************************************************************)
\* data.x?.length ? setX(data.x.map(mapX)) : (state left as it is)
Loaded(rawList, current, F(_)) ==
  IF Len(rawList) > 0 THEN MapSeq(rawList, F) ELSE current

\* project.title.replace(...) in mapTask throws a TypeError when a task's
\* project has no title
MapTaskThrows(data) ==
  \E i \in 1..Len(data.tasks) :
    /\ HasId(data.projects, data.tasks[i].project_id)
    /\ Find(data.projects, data.tasks[i].project_id).title = NoStr

LoadDataOk(data) ==
  /\ boot = "fetching"
  /\ ~MapTaskThrows(data)
  /\ agents' = Loaded(data.agents, agents, mapAgent)
  /\ tasks' = Loaded(data.tasks, tasks,
                     LAMBDA t : mapTask(t, data.agents, data.projects))
  /\ projects' = Loaded(data.projects, projects,
                        LAMBDA p : mapProject(p, data.tasks))
  /\ goals' = Loaded(data.goals, goals, mapGoal)
  /\ activity' = Loaded(data.activity, activity, mapActivity)
  /\ messages' = Loaded(data.messages, messages, mapMessage)
  /\ isLive' = TRUE
  /\ loading' = FALSE
  /\ boot' = "ok"
  /\ last' = [op |-> "loadOk", raw |-> data.tasks,
              tokens |-> {data.tasks[i].status : i \in 1..Len(data.tasks)},
              progress |-> {data.goals[i].progress : i \in 1..Len(data.goals)}]
  /\ UNCHANGED <<featureRequests, threadId, inflight, timers, strategy, remote,
                 minted, now, currentView, selectedProjectId, selectedAgentId, requested, ops>>

LoadDataFail ==
  /\ boot = "fetching"
  /\ isLive' = FALSE
  /\ loading' = FALSE
  /\ boot' = "failed"
  /\ last' = [op |-> "loadFail"]
  /\ UNCHANGED <<tasks, projects, goals, featureRequests, agents, activity,
                 messages, threadId, inflight, timers, strategy, remote, minted, now, currentView, selectedProjectId, selectedAgentId, requested, ops>>

\* The fetch answered but mapTask threw: the setters called before the throw
\* (setAgents) have taken effect, the catch block sets isLive to false.
LoadDataThrows(data) ==
  /\ boot = "fetching"
  /\ Len(data.tasks) > 0
  /\ MapTaskThrows(data)
  /\ agents' = Loaded(data.agents, agents, mapAgent)
  /\ isLive' = FALSE
  /\ loading' = FALSE
  /\ boot' = "failed"
  /\ last' = [op |-> "loadThrow"]
  /\ UNCHANGED <<tasks, projects, goals, featureRequests, activity, messages,
                 threadId, inflight, timers, strategy, remote, minted, now, currentView, selectedProjectId, selectedAgentId,
                 requested, ops>>

\* The clock advances between events.
Tick ==
  /\ now < MaxClock
  /\ now' = now + 1
  /\ UNCHANGED <<currentView, selectedProjectId, selectedAgentId, last, tasks, projects, goals, featureRequests, agents, activity,
                 messages, threadId, isLive, loading, boot, inflight, timers, strategy,
                 remote, minted, ops, requested>>

(***************************************************************************)
(* Mutation engine: tasks.                                                 *)
(*                                                                         *)
(* A handler runs synchronously up to its first await, which it reaches    *)
(* only when isLive; the code after the await runs in Resolve, when the    *)
(* promise settles.  Offline the whole handler is one step.  What the      *)
(* handler read from its closure (tasks.find, projects.find, the temp      *)
(* entity) is taken at invocation and carried in the inflight record.      *)
(***************************************************************************)
\* setTasks(prev => prev.map(t => t.id === taskId ? { ...t, status } : t))
SetStatus(ts, taskId, status) ==
  MapSeq(ts, LAMBDA t : IF t.id = taskId THEN [t EXCEPT !.status = status] ELSE t)

\* Faulty variant of MergeInto: the patch is merged into every entity of the
\* collection.
MergeInto_All(coll, id, updates) ==
  MapSeq(coll, LAMBDA e : Merge(e, updates))

\* setX(prev => prev.map(e => e.id === id ? { ...e, ...updates } : e))
MergeInto(coll, id, updates) ==
  MapSeq(coll, LAMBDA e : IF e.id = id THEN Merge(e, updates) ELSE e)

\* setX(prev => prev.filter(e => e.id !== id))
RECURSIVE Without(_, _)
Without(coll, id) ==
  IF coll = <<>> THEN <<>>
  ELSE IF Head(coll).id = id THEN Without(Tail(coll), id)
       ELSE <<Head(coll)>> \o Without(Tail(coll), id)

\* Faulty variant of Reconcile: an entity that is no longer in the collection
\* is put back.
Reconcile_Upsert(coll, temp, realId) ==
  IF HasId(coll, temp.id)
  THEN MapSeq(coll, LAMBDA e : IF e.id = temp.id THEN [temp EXCEPT !.id = realId] ELSE e)
  ELSE Prepend([temp EXCEPT !.id = realId], coll)

\* setX(prev => prev.map(e => e.id === temp.id ? { ...temp, id: realId } : e))
Reconcile(coll, temp, realId) ==
  MapSeq(coll, LAMBDA e : IF e.id = temp.id THEN [temp EXCEPT !.id = realId] ELSE e)

\* status === 'completed' ? 'Completed' : status === 'in_progress' ? 'Started' : 'Updated'
StatusAction(status) ==
  IF status = "completed" THEN "Completed"
  ELSE IF status = "in_progress" THEN "Started" ELSE "Updated"

\* the code after the await of handleUpdateTaskStatus
StatusContinuation(c) ==
  /\ tasks' = SetStatus(tasks, c.id, c.status)
  /\ activity' = IF c.found
                 THEN Prepend(TigerItem(StatusAction(c.status), c.title, <<>>), activity)
                 ELSE activity

\* the history of status requests after one more: taskId was asked to become status
Asked(h, taskId, status) ==
  [id \in DOMAIN h \cup {taskId} |->
     IF id # taskId THEN h[id]
     ELSE IF taskId \in DOMAIN h THEN Append(h[taskId], status) ELSE <<status>>]

handleUpdateTaskStatus(via, taskId, status) ==
  LET c == Merge(Closure(tasks, taskId),
                 [op |-> "updateTaskStatus", id |-> taskId, status |-> status])
  IN /\ last' = [op |-> "updateTaskStatus", via |-> via, id |-> taskId,
                 status |-> status, live |-> isLive, called |-> TRUE]
     /\ ops' = ops + 1
     /\ requested' = Asked(requested, taskId, status)
     /\ IF isLive
        THEN /\ remote' = remote \cup
                    {Request("update-task-status", taskId, SerializeStatus(status))}
             /\ inflight' = Append(inflight, c)
             /\ UNCHANGED <<tasks, activity>>
        ELSE /\ StatusContinuation(c)
             /\ UNCHANGED <<remote, inflight>>
     /\ UNCHANGED <<projects, goals, featureRequests, agents, messages, threadId,
                    isLive, loading, boot, timers, strategy, minted, now, currentView, selectedProjectId, selectedAgentId>>

\* the changes[] list of handleUpdateTask
Truthy(u, f) == f \in DOMAIN u /\ u[f] # <<>> /\ u[f] # NoStr
TaskChanges(u) ==
  (IF Truthy(u, "title") THEN <<"title">> ELSE <<>>)
  \o (IF Truthy(u, "description") THEN <<"description">> ELSE <<>>)
  \o (IF "priority" \in DOMAIN u THEN <<"priority", u.priority>> ELSE <<>>)
  \o (IF "assignedTo" \in DOMAIN u THEN <<"assignee">> ELSE <<>>)
  \o (IF "projectId" \in DOMAIN u /\ u.projectId # NoId THEN <<"project">> ELSE <<>>)

UpdateTaskContinuation(c) ==
  activity' = IF c.found
              THEN Prepend(TigerItem("Updated task", c.title, TaskChanges(c.patch)), activity)
              ELSE activity

handleUpdateTask(via, taskId, updates) ==
  LET c == Merge(Closure(tasks, taskId),
                 [op |-> "updateTask", id |-> taskId, patch |-> updates])
  IN /\ last' = [op |-> "updateTask", via |-> via, id |-> taskId,
                 patch |-> updates, live |-> isLive, called |-> TRUE]
     /\ ops' = ops + 1
     /\ tasks' = MergeInto(tasks, taskId, updates)
     /\ IF isLive
        THEN /\ remote' = remote \cup {Request("update-task-full", taskId, NoTok)}
             /\ inflight' = Append(inflight, c)
             /\ UNCHANGED activity
        ELSE /\ UpdateTaskContinuation(c)
             /\ UNCHANGED <<remote, inflight>>
     /\ UNCHANGED <<projects, goals, featureRequests, agents, messages, threadId,
                    isLive, loading, boot, timers, strategy, minted, now, currentView, selectedProjectId, selectedAgentId, requested>>

\* the tempTask of handleCreateTask
TempTask(taskData) ==
  LET hasProject == HasId(projects, taskData.projectId)
  IN [id               |-> <<"temp", now>>,
      title            |-> taskData.title,
      description      |-> taskData.description,
      assignedTo       |-> taskData.assignedTo,
      assignedBy       |-> Tiger,
      priority         |-> taskData.priority,
      status           |-> "pending",
      projectId        |-> taskData.projectId,
      projectName      |-> IF hasProject
                           THEN StripPrefix(Find(projects, taskData.projectId).title)
                           ELSE NoStr,
      projectShortCode |-> IF hasProject
                           THEN Find(projects, taskData.projectId).shortCode
                           ELSE NoStr,
      parentTaskId     |-> taskData.parentTaskId]

\* Faulty variant of CreateTaskContinuation: the item's detail is the
\* description instead of the title.
CreateTaskContinuation_Description(c) ==
  activity' = Prepend(TigerItem("Created task", c.temp.description, <<>>), activity)

CreateTaskContinuation(c) ==
  activity' = Prepend(TigerItem("Created task", c.title, <<>>), activity)

handleCreateTask(via, taskData) ==
  LET tempTask == TempTask(taskData)
      c == [op |-> "createTask", id |-> tempTask.id, temp |-> tempTask,
            found |-> TRUE, title |-> taskData.title]
  IN /\ last' = [op |-> "createTask", via |-> via, id |-> tempTask.id,
                 data |-> taskData, live |-> isLive, called |-> TRUE]
     /\ ops' = ops + 1
     /\ tasks' = Prepend(tempTask, tasks)
     /\ IF isLive
        THEN /\ remote' = remote \cup {Request("create-task", NoId, NoTok)}
             /\ inflight' = Append(inflight, c)
             /\ UNCHANGED activity
        ELSE /\ CreateTaskContinuation(c)
             /\ UNCHANGED <<remote, inflight>>
     /\ UNCHANGED <<projects, goals, featureRequests, agents, messages, threadId,
                    isLive, loading, boot, timers, strategy, minted, now, currentView, selectedProjectId, selectedAgentId, requested>>

\* Faulty variant of handleDeleteTask: the "if (isLive)" gate is missing.
handleDeleteTask_Ungated(via, taskId) ==
  /\ last' = [op |-> "deleteTask", via |-> via, id |-> taskId,
              live |-> isLive, called |-> TRUE]
  /\ ops' = ops + 1
  /\ tasks' = Without(tasks, taskId)
  /\ remote' = remote \cup {Request("delete-task", taskId, NoTok)}
  /\ inflight' = Append(inflight, Merge(Closure(tasks, taskId),
                                        [op |-> "deleteTask", id |-> taskId]))
  /\ UNCHANGED <<projects, goals, featureRequests, agents, activity, messages,
                 threadId, isLive, loading, boot, timers, strategy, minted, now, currentView, selectedProjectId, selectedAgentId, requested>>

\* Faulty variant of handleDeleteTask: the sub-tasks of the task are removed
\* with it.
handleDeleteTask_Cascade(via, taskId) ==
  LET c == Merge(Closure(tasks, taskId), [op |-> "deleteTask", id |-> taskId])
  IN /\ last' = [op |-> "deleteTask", via |-> via, id |-> taskId,
                 live |-> isLive, called |-> TRUE]
     /\ ops' = ops + 1
     /\ tasks' = SelectSeq(tasks, LAMBDA t : t.id # taskId /\ t.parentTaskId # taskId)
     /\ IF isLive
        THEN /\ remote' = remote \cup {Request("delete-task", taskId, NoTok)}
             /\ inflight' = Append(inflight, c)
             /\ UNCHANGED activity
        ELSE /\ activity' = IF c.found
                            THEN Prepend(TigerItem("Deleted task", c.title, <<>>), activity)
                            ELSE activity
             /\ UNCHANGED <<remote, inflight>>
     /\ UNCHANGED <<projects, goals, featureRequests, agents, messages, threadId,
                    isLive, loading, boot, timers, strategy, minted, now, currentView, selectedProjectId, selectedAgentId, requested>>

DeleteTaskContinuation(c) ==
  activity' = IF c.found
              THEN Prepend(TigerItem("Deleted task", c.title, <<>>), activity)
              ELSE activity

handleDeleteTask(via, taskId) ==
  LET c == Merge(Closure(tasks, taskId), [op |-> "deleteTask", id |-> taskId])
  IN /\ last' = [op |-> "deleteTask", via |-> via, id |-> taskId,
                 live |-> isLive, called |-> TRUE]
     /\ ops' = ops + 1
     /\ tasks' = Without(tasks, taskId)
     /\ IF isLive
        THEN /\ remote' = remote \cup {Request("delete-task", taskId, NoTok)}
             /\ inflight' = Append(inflight, c)
             /\ UNCHANGED activity
        ELSE /\ DeleteTaskContinuation(c)
             /\ UNCHANGED <<remote, inflight>>
     /\ UNCHANGED <<projects, goals, featureRequests, agents, messages, threadId,
                    isLive, loading, boot, timers, strategy, minted, now, currentView, selectedProjectId, selectedAgentId, requested>>

(***************************************************************************)
(* Mutation engine: projects.                                              *)
(***************************************************************************)
\* the changes[] list of handleUpdateProject (notes and targetDate are not
\* modelled)
ProjectChanges(u) ==
  (IF "status" \in DOMAIN u THEN <<"status", u.status>> ELSE <<>>)
  \o (IF "description" \in DOMAIN u /\ u.description # NoStr
      THEN <<"description">> ELSE <<>>)

UpdateProjectContinuation(c) ==
  activity' = IF c.found
              THEN Prepend(TigerItem("Updated project", c.shortCode,
                                     ProjectChanges(c.patch)), activity)
              ELSE activity

handleUpdateProject(via, projectId, updates) ==
  LET c == Merge(Closure(projects, projectId),
                 [op |-> "updateProject", id |-> projectId, patch |-> updates,
                  shortCode |-> IF HasId(projects, projectId)
                                THEN Find(projects, projectId).shortCode
                                ELSE NoStr])
  IN /\ last' = [op |-> "updateProject", via |-> via, id |-> projectId,
                 patch |-> updates, live |-> isLive, called |-> TRUE]
     /\ ops' = ops + 1
     /\ projects' = MergeInto(projects, projectId, updates)
     /\ IF isLive
        THEN /\ remote' = remote \cup {Request("update-project", projectId, NoTok)}
             /\ inflight' = Append(inflight, c)
             /\ UNCHANGED activity
        ELSE /\ UpdateProjectContinuation(c)
             /\ UNCHANGED <<remote, inflight>>
     /\ UNCHANGED <<tasks, goals, featureRequests, agents, messages, threadId,
                    isLive, loading, boot, timers, strategy, minted, now, currentView, selectedProjectId, selectedAgentId, requested>>

\* data.title.match(/^PR\.(\w+)/)?.[1] || data.title.substring(0, 4).toUpperCase()
CreateShortCode(title) ==
  IF MatchShortCode(title) # <<>> THEN MatchShortCode(title)
  ELSE ToUpperCase(Substring0(title, 4))

\* the tempProject of handleCreateProject (department fields not modelled)
TempProject(data) ==
  [id              |-> <<"temp", now>>,
   title           |-> data.title,
   shortCode       |-> CreateShortCode(data.title),
   status          |-> "active",
   description     |-> data.description,
   taskCount       |-> 0,
   completedTaskCount |-> 0,
   parentProjectId |-> data.parentProjectId]

CreateProjectContinuation(c) ==
  activity' = Prepend(TigerItem("Created project", c.title, <<>>), activity)

handleCreateProject(via, data) ==
  LET tempProject == TempProject(data)
      c == [op |-> "createProject", id |-> tempProject.id, temp |-> tempProject,
            found |-> TRUE, title |-> data.title]
  IN /\ last' = [op |-> "createProject", via |-> via, id |-> tempProject.id,
                 data |-> data, live |-> isLive, called |-> TRUE]
     /\ ops' = ops + 1
     /\ projects' = Prepend(tempProject, projects)
     /\ IF isLive
        THEN /\ remote' = remote \cup {Request("create-project", NoId, NoTok)}
             /\ inflight' = Append(inflight, c)
             /\ UNCHANGED activity
        ELSE /\ CreateProjectContinuation(c)
             /\ UNCHANGED <<remote, inflight>>
     /\ UNCHANGED <<tasks, goals, featureRequests, agents, messages, threadId,
                    isLive, loading, boot, timers, strategy, minted, now, currentView, selectedProjectId, selectedAgentId, requested>>

\* prev.filter(p => p.id !== projectId)
\*     .map(p => p.parentProjectId === projectId ? {...p, parentProjectId: undefined} : p)
UnlinkProjects(ps, projectId) ==
  MapSeq(Without(ps, projectId),
         LAMBDA p : IF p.parentProjectId = projectId
                    THEN [p EXCEPT !.parentProjectId = NoId] ELSE p)

\* Faulty variant of UnlinkTasks: the denormalized short code is left behind.
UnlinkTasks_KeepsShortCode(ts, projectId) ==
  MapSeq(ts, LAMBDA t : IF t.projectId = projectId
                        THEN [t EXCEPT !.projectId = NoId, !.projectName = NoStr]
                        ELSE t)

\* prev.map(t => t.projectId === projectId
\*     ? {...t, projectId: undefined, projectName: undefined, projectShortCode: undefined} : t)
UnlinkTasks(ts, projectId) ==
  MapSeq(ts, LAMBDA t : IF t.projectId = projectId
                        THEN [t EXCEPT !.projectId = NoId, !.projectName = NoStr,
                                       !.projectShortCode = NoStr]
                        ELSE t)

DeleteProjectContinuation(c) ==
  activity' = IF c.found
              THEN Prepend(TigerItem("Deleted project", c.title, <<>>), activity)
              ELSE activity

handleDeleteProject(via, projectId) ==
  LET c == Merge(Closure(projects, projectId),
                 [op |-> "deleteProject", id |-> projectId])
  IN /\ last' = [op |-> "deleteProject", via |-> via, id |-> projectId,
                 live |-> isLive, called |-> TRUE]
     /\ ops' = ops + 1
     /\ projects' = UnlinkProjects(projects, projectId)
     /\ tasks' = UnlinkTasks(tasks, projectId)
     /\ IF isLive
        THEN /\ remote' = remote \cup {Request("delete-project", projectId, NoTok)}
             /\ inflight' = Append(inflight, c)
             /\ UNCHANGED activity
        ELSE /\ DeleteProjectContinuation(c)
             /\ UNCHANGED <<remote, inflight>>
     /\ UNCHANGED <<goals, featureRequests, agents, messages, threadId,
                    isLive, loading, boot, timers, strategy, minted, now, currentView, selectedProjectId, selectedAgentId, requested>>

(***************************************************************************)
(* Mutation engine: goals.  The handlers leave the Strategy component's    *)
(* state to their caller.                                                  *)
(***************************************************************************)
\* the changes[] list of handleUpdateGoal (description and targetDate are
\* not modelled)
GoalChanges(u) ==
  (IF "progress" \in DOMAIN u THEN <<"progress", u.progress>> ELSE <<>>)
  \o (IF "status" \in DOMAIN u THEN <<"status", u.status>> ELSE <<>>)
  \o (IF Truthy(u, "title") THEN <<"title">> ELSE <<>>)

UpdateGoalContinuation(c) ==
  activity' = IF c.found
              THEN Prepend(TigerItem("Updated goal",
                                     IF Truthy(c.patch, "title") THEN c.patch.title
                                     ELSE c.title,
                                     GoalChanges(c.patch)), activity)
              ELSE activity

handleUpdateGoal(via, goalId, updates) ==
  LET c == Merge(Closure(goals, goalId),
                 [op |-> "updateGoal", id |-> goalId, patch |-> updates])
  IN /\ last' = [op |-> "updateGoal", via |-> via, id |-> goalId,
                 patch |-> updates, live |-> isLive, called |-> TRUE]
     /\ ops' = ops + 1
     /\ goals' = MergeInto(goals, goalId, updates)
     /\ IF isLive
        THEN /\ remote' = remote \cup {Request("update-goal", goalId, NoTok)}
             /\ inflight' = Append(inflight, c)
             /\ UNCHANGED activity
        ELSE /\ UpdateGoalContinuation(c)
             /\ UNCHANGED <<remote, inflight>>
     /\ UNCHANGED <<tasks, projects, featureRequests, agents, messages, threadId,
                    isLive, loading, boot, timers, minted, now, currentView, selectedProjectId, selectedAgentId, requested>>

\* the tempGoal of handleCreateGoal (owner and target date not modelled)
TempGoal(data) ==
  [id |-> <<"temp", now>>, title |-> data.title, progress |-> 0,
   status |-> "on-track"]

CreateGoalContinuation(c) ==
  activity' = Prepend(TigerItem("Created goal", c.title, <<>>), activity)

handleCreateGoal(via, data) ==
  LET tempGoal == TempGoal(data)
      c == [op |-> "createGoal", id |-> tempGoal.id, temp |-> tempGoal,
            found |-> TRUE, title |-> data.title]
  IN /\ last' = [op |-> "createGoal", via |-> via, id |-> tempGoal.id,
                 data |-> data, live |-> isLive, called |-> TRUE]
     /\ ops' = ops + 1
     /\ goals' = Append(goals, tempGoal)
     /\ IF isLive
        THEN /\ remote' = remote \cup {Request("create-goal", NoId, NoTok)}
             /\ inflight' = Append(inflight, c)
             /\ UNCHANGED activity
        ELSE /\ CreateGoalContinuation(c)
             /\ UNCHANGED <<remote, inflight>>
     /\ UNCHANGED <<tasks, projects, featureRequests, agents, messages, threadId,
                    isLive, loading, boot, timers, minted, now, currentView, selectedProjectId, selectedAgentId, requested>>

DeleteGoalContinuation(c) ==
  activity' = IF c.found
              THEN Prepend(TigerItem("Deleted goal", c.title, <<>>), activity)
              ELSE activity

handleDeleteGoal(via, goalId) ==
  LET c == Merge(Closure(goals, goalId), [op |-> "deleteGoal", id |-> goalId])
  IN /\ last' = [op |-> "deleteGoal", via |-> via, id |-> goalId,
                 live |-> isLive, called |-> TRUE]
     /\ ops' = ops + 1
     /\ goals' = Without(goals, goalId)
     /\ IF isLive
        THEN /\ remote' = remote \cup {Request("delete-goal", goalId, NoTok)}
             /\ inflight' = Append(inflight, c)
             /\ UNCHANGED activity
        ELSE /\ DeleteGoalContinuation(c)
             /\ UNCHANGED <<remote, inflight>>
     /\ UNCHANGED <<tasks, projects, featureRequests, agents, messages, threadId,
                    isLive, loading, boot, timers, minted, now, currentView, selectedProjectId, selectedAgentId, requested>>

(***************************************************************************)
(* Mutation engine: ideas (feature requests).  No update or delete of an   *)
(* idea writes an activity item.                                           *)
(***************************************************************************)
\* new Date().toISOString() on the client
LocalTime == <<"local", now>>

TempFr(data) ==
  [id |-> <<"temp", now>>, title |-> data.title, status |-> "new",
   priority |-> data.priority, createdAt |-> LocalTime, updatedAt |-> LocalTime]

CreateFeatureRequestContinuation(c) ==
  activity' = Prepend(TigerItem("Captured idea", c.title, <<>>), activity)

handleCreateFeatureRequest(via, data) ==
  LET tempFr == TempFr(data)
      c == [op |-> "createFeatureRequest", id |-> tempFr.id, temp |-> tempFr,
            found |-> TRUE, title |-> data.title]
  IN /\ last' = [op |-> "createFeatureRequest", via |-> via, id |-> tempFr.id,
                 data |-> data, live |-> isLive, called |-> TRUE]
     /\ ops' = ops + 1
     /\ featureRequests' = Prepend(tempFr, featureRequests)
     /\ IF isLive
        THEN /\ remote' = remote \cup {Request("create-feature-request", NoId, NoTok)}
             /\ inflight' = Append(inflight, c)
             /\ UNCHANGED activity
        ELSE /\ CreateFeatureRequestContinuation(c)
             /\ UNCHANGED <<remote, inflight>>
     /\ UNCHANGED <<tasks, projects, goals, agents, messages, threadId,
                    isLive, loading, boot, timers, strategy, minted, now, currentView, selectedProjectId, selectedAgentId, requested>>

handleUpdateFeatureRequest(via, id, updates) ==
  /\ last' = [op |-> "updateFeatureRequest", via |-> via, id |-> id,
              patch |-> updates, live |-> isLive, called |-> TRUE]
  /\ ops' = ops + 1
  /\ featureRequests' =
       MergeInto(featureRequests, id, Merge(updates, [updatedAt |-> LocalTime]))
  /\ IF isLive
     THEN /\ remote' = remote \cup {Request("update-feature-request", id, NoTok)}
          /\ inflight' = Append(inflight, [op |-> "updateFeatureRequest", id |-> id])
     ELSE UNCHANGED <<remote, inflight>>
  /\ UNCHANGED <<tasks, projects, goals, agents, activity, messages, threadId,
                 isLive, loading, boot, timers, strategy, minted, now, currentView, selectedProjectId, selectedAgentId, requested>>

handleDeleteFeatureRequest(via, id) ==
  /\ last' = [op |-> "deleteFeatureRequest", via |-> via, id |-> id,
              live |-> isLive, called |-> TRUE]
  /\ ops' = ops + 1
  /\ featureRequests' = Without(featureRequests, id)
  /\ IF isLive
     THEN /\ remote' = remote \cup {Request("delete-feature-request", id, NoTok)}
          /\ inflight' = Append(inflight, [op |-> "deleteFeatureRequest", id |-> id])
     ELSE UNCHANGED <<remote, inflight>>
  /\ UNCHANGED <<tasks, projects, goals, agents, activity, messages, threadId,
                 isLive, loading, boot, timers, strategy, minted, now, currentView, selectedProjectId, selectedAgentId, requested>>

(***************************************************************************)
(* Mutation engine: agents and chat.                                       *)
(***************************************************************************)
\* the local patch of handleUpdateAgent
PatchAgent(as, agentId, updates) ==
  MapSeq(as, LAMBDA a :
    IF a.id # agentId THEN a
    ELSE [a EXCEPT
            !.role = IF "functional_name" \in DOMAIN updates
                     THEN updates.functional_name ELSE @,
            !.status = IF "is_active" \in DOMAIN updates
                       THEN (IF updates.is_active THEN "active" ELSE "idle")
                       ELSE @])

handleUpdateAgent(via, agentId, updates) ==
  /\ last' = [op |-> "updateAgent", via |-> via, id |-> agentId,
              patch |-> updates, live |-> isLive, called |-> TRUE]
  /\ ops' = ops + 1
  /\ IF isLive
     THEN /\ remote' = remote \cup {Request("update-agent", agentId, NoTok)}
          /\ inflight' = Append(inflight, [op |-> "updateAgent", id |-> agentId,
                                           patch |-> updates])
          /\ UNCHANGED agents
     ELSE /\ agents' = PatchAgent(agents, agentId, updates)
          /\ UNCHANGED <<remote, inflight>>
  /\ UNCHANGED <<tasks, projects, goals, featureRequests, activity, messages,
                 threadId, isLive, loading, boot, timers, strategy, minted, now, currentView, selectedProjectId, selectedAgentId, requested>>

\* the local path of handleSpawnAgent: a 'spawning' agent, an activity item
\* and a timer that activates the agent
SpawnLocally(name, role) ==
  /\ agents' = Append(agents, [id |-> <<"agent", now>>, name |-> name,
                               role |-> role, status |-> "spawning"])
  /\ activity' = Prepend(Item("The CEA", "Spawned agent", name, <<>>, "spawn"),
                         activity)
  /\ timers' = Append(timers, [kind |-> "activate", id |-> <<"agent", now>>])

handleSpawnAgent(via, name, role) ==
  /\ last' = [op |-> "spawnAgent", via |-> via,
              id |-> IF isLive THEN NoId ELSE <<"agent", now>>, live |-> isLive,
              called |-> TRUE]
  /\ ops' = ops + 1
  /\ IF isLive
     THEN /\ remote' = remote \cup {Request("spawn-agent", NoId, NoTok)}
          /\ inflight' = Append(inflight, [op |-> "spawnAgent", id |-> NoId,
                                           name |-> name, role |-> role])
          /\ UNCHANGED <<agents, activity, timers>>
     ELSE /\ SpawnLocally(name, role)
          /\ UNCHANGED <<remote, inflight>>
  /\ UNCHANGED <<tasks, projects, goals, featureRequests, messages, threadId,
                 isLive, loading, boot, strategy, minted, now, currentView, selectedProjectId, selectedAgentId, requested>>

\* content.includes('?') ? 'report' : 'directive'
ReplyType(content) == IF content = "question" THEN "report" ELSE "directive"

handleSendMessage(via, content) ==
  /\ last' = [op |-> "sendMessage", via |-> via, id |-> <<"m", now>>,
              thread |-> threadId, live |-> isLive, called |-> TRUE]
  /\ ops' = ops + 1
  /\ messages' = Append(messages, [id |-> <<"m", now>>, from |-> "tiger",
                                   type |-> "message"])
  /\ IF isLive
     THEN /\ remote' = remote \cup {Request("cea-brain", threadId, NoTok)}
          /\ inflight' = Append(inflight, [op |-> "sendMessage", id |-> threadId,
                                           content |-> content])
          /\ UNCHANGED timers
     ELSE /\ timers' = Append(timers, [kind |-> "reply", id |-> NoId,
                                       type |-> ReplyType(content)])
          /\ UNCHANGED <<remote, inflight>>
  /\ UNCHANGED <<tasks, projects, goals, featureRequests, agents, activity,
                 threadId, isLive, loading, boot, strategy, minted, now, currentView, selectedProjectId, selectedAgentId, requested>>

\* a setTimeout callback runs
FireTimer(i) ==
  /\ i \in 1..Len(timers)
  /\ timers' = RemoveAt(timers, i)
  /\ last' = [op |-> "timer", kind |-> timers[i].kind]
  /\ IF timers[i].kind = "reply"
     THEN /\ messages' = Append(messages, [id |-> <<"m", now + 1>>, from |-> "cea",
                                           type |-> timers[i].type])
          /\ UNCHANGED agents
     ELSE /\ agents' = MapSeq(agents, LAMBDA a :
                         IF a.id = timers[i].id THEN [a EXCEPT !.status = "active"]
                         ELSE a)
          /\ UNCHANGED messages
  /\ UNCHANGED <<tasks, projects, goals, featureRequests, activity, threadId,
                 isLive, loading, boot, inflight, strategy, remote, minted, now, currentView, selectedProjectId, selectedAgentId, requested, ops>>

(***************************************************************************)
(* The promise of a suspended handler settles and the rest of the handler  *)
(* runs.  outcome: "ok" (the gateway answered, with a data row where the   *)
(* handler reads one), "empty" (it answered without a data row), "fail"    *)
(* (apiFetch threw: network error or non-2xx status).                      *)
(***************************************************************************)
RealId == <<"real", minted + 1>>
ServerTime == <<"server", minted + 1>>

ReadsResult(op) ==
  op \in {"createTask", "createProject", "createGoal", "createFeatureRequest",
          "spawnAgent", "loadFeatureRequests"}

\* the rows fetchFeatureRequests answers with
RawFeatureRequests ==
  << [id |-> <<"rf", 1>>, title |-> <<"I","d","e","a">>, status |-> "new",
      priority |-> "medium", created_at |-> <<"server", 0>>,
      updated_at |-> <<"server", 0>>] >>

\* the inline mapper of loadFeatureRequests
mapFeatureRequest(fr) ==
  [id |-> fr.id, title |-> fr.title,
   status |-> IF fr.status = NoTok THEN "new" ELSE fr.status,
   priority |-> IF fr.priority = NoTok THEN "medium" ELSE fr.priority,
   createdAt |-> fr.created_at, updatedAt |-> fr.updated_at]

\* the gateway assigns an id when it creates a row or opens a thread
Mints(c, outcome) ==
  /\ outcome = "ok"
  /\ \/ ReadsResult(c.op) /\ c.op # "loadFeatureRequests"
     \/ c.op = "sendMessage" /\ c.id = NoId

Settle(c, outcome) ==
  CASE c.op = "loadFeatureRequests" ->
         /\ featureRequests' = IF outcome = "ok"
                               THEN MapSeq(RawFeatureRequests, mapFeatureRequest)
                               ELSE featureRequests
         /\ UNCHANGED <<tasks, projects, goals, agents, activity, messages,
                        threadId, timers>>
    [] c.op = "updateTaskStatus" ->
         /\ StatusContinuation(c)
         /\ UNCHANGED <<projects, goals, featureRequests, agents, messages,
                        threadId, timers>>
    [] c.op = "updateTask" ->
         /\ UpdateTaskContinuation(c)
         /\ UNCHANGED <<tasks, projects, goals, featureRequests, agents, messages,
                        threadId, timers>>
    [] c.op = "createTask" ->
         /\ tasks' = IF outcome = "ok" THEN Reconcile(tasks, c.temp, RealId)
                     ELSE tasks
         /\ CreateTaskContinuation(c)
         /\ UNCHANGED <<projects, goals, featureRequests, agents, messages,
                        threadId, timers>>
    [] c.op = "deleteTask" ->
         /\ DeleteTaskContinuation(c)
         /\ UNCHANGED <<tasks, projects, goals, featureRequests, agents, messages,
                        threadId, timers>>
    [] c.op = "updateProject" ->
         /\ UpdateProjectContinuation(c)
         /\ UNCHANGED <<tasks, projects, goals, featureRequests, agents, messages,
                        threadId, timers>>
    [] c.op = "createProject" ->
         /\ projects' = IF outcome = "ok" THEN Reconcile(projects, c.temp, RealId)
                        ELSE projects
         /\ CreateProjectContinuation(c)
         /\ UNCHANGED <<tasks, goals, featureRequests, agents, messages,
                        threadId, timers>>
    [] c.op = "deleteProject" ->
         /\ DeleteProjectContinuation(c)
         /\ UNCHANGED <<tasks, projects, goals, featureRequests, agents, messages,
                        threadId, timers>>
    [] c.op = "updateGoal" ->
         /\ UpdateGoalContinuation(c)
         /\ UNCHANGED <<tasks, projects, goals, featureRequests, agents, messages,
                        threadId, timers>>
    [] c.op = "createGoal" ->
         /\ goals' = IF outcome = "ok" THEN Reconcile(goals, c.temp, RealId)
                     ELSE goals
         /\ CreateGoalContinuation(c)
         /\ UNCHANGED <<tasks, projects, featureRequests, agents, messages,
                        threadId, timers>>
    [] c.op = "deleteGoal" ->
         /\ DeleteGoalContinuation(c)
         /\ UNCHANGED <<tasks, projects, goals, featureRequests, agents, messages,
                        threadId, timers>>
    [] c.op = "createFeatureRequest" ->
         /\ featureRequests' =
              IF outcome = "ok"
              THEN Reconcile(featureRequests,
                             [c.temp EXCEPT !.createdAt = ServerTime,
                                            !.updatedAt = ServerTime], RealId)
              ELSE featureRequests
         /\ CreateFeatureRequestContinuation(c)
         /\ UNCHANGED <<tasks, projects, goals, agents, messages, threadId, timers>>
    [] c.op \in {"updateFeatureRequest", "deleteFeatureRequest"} ->
         UNCHANGED <<tasks, projects, goals, featureRequests, agents, activity,
                     messages, threadId, timers>>
    [] c.op = "updateAgent" ->
         /\ agents' = PatchAgent(agents, c.id, c.patch)
         /\ UNCHANGED <<tasks, projects, goals, featureRequests, activity, messages,
                        threadId, timers>>
    [] c.op = "spawnAgent" ->
         /\ IF outcome = "ok"
            THEN /\ agents' = Append(agents,
                       mapAgent([id |-> RealId, functional_name |-> c.role,
                                 handle |-> c.name, is_active |-> TRUE]))
                 /\ activity' = Prepend(Item("The CEA", "Spawned agent", c.name,
                                             <<>>, "spawn"), activity)
                 /\ UNCHANGED timers
            ELSE SpawnLocally(c.name, c.role)
         /\ UNCHANGED <<tasks, projects, goals, featureRequests, messages, threadId>>
    [] c.op = "sendMessage" ->
         /\ IF outcome = "ok"
            THEN /\ threadId' = IF c.id = NoId THEN RealId ELSE threadId
                 /\ messages' = Append(messages,
                       [id |-> <<"m", now + 1>>, from |-> "cea",
                        type |-> ReplyType(c.content)])
                 /\ UNCHANGED timers
            ELSE /\ timers' = Append(timers, [kind |-> "reply", id |-> NoId,
                                              type |-> "directive"])
                 /\ UNCHANGED <<threadId, messages>>
         /\ UNCHANGED <<tasks, projects, goals, featureRequests, agents, activity>>

Resolve(i, outcome) ==
  /\ i \in 1..Len(inflight)
  /\ outcome = "empty" => ReadsResult(inflight[i].op)
  /\ inflight' = RemoveAt(inflight, i)
  /\ minted' = IF Mints(inflight[i], outcome) THEN minted + 1 ELSE minted
  /\ last' = [op |-> "resolve", of |-> inflight[i].op, id |-> inflight[i].id,
              outcome |-> outcome]
  /\ Settle(inflight[i], outcome)
  /\ UNCHANGED <<isLive, loading, boot, strategy, remote, now, currentView, selectedProjectId, selectedAgentId, requested, ops>>

(***************************************************************************)
(* View layer: the components' own handlers, which validate the input and  *)
(* call the mutation engine.  A handler that returns early is a step that  *)
(* calls nothing.                                                          *)
(***************************************************************************)
\* the value '' of a <select> or an untouched text field
EmptySel == <<"", 0>>

\* x || undefined on an id
IdOrUndefined(x) == IF x = EmptySel THEN NoId ELSE x

\* a || b on strings
OrElse(a, b) == IF a = <<>> THEN b ELSE a

\* a component handler returned before calling the engine
Returned(op, via, id, status) ==
  /\ last' = [op |-> op, via |-> via, id |-> id, status |-> status,
              live |-> isLive, called |-> FALSE]
  /\ ops' = ops + 1
  /\ UNCHANGED <<tasks, projects, goals, featureRequests, agents, activity,
                 messages, threadId, isLive, loading, boot, inflight, timers,
                 strategy, remote, minted, now, currentView, selectedProjectId, selectedAgentId, requested>>

\* TaskBoard.handleCreateTask: the create form of the task board
BoardCreateTask(newTask) ==
  IF Trim(newTask.title) = <<>>
  THEN Returned("createTask", "board-form", NoId, NoTok)
  ELSE handleCreateTask("board-form",
         [title        |-> Trim(newTask.title),
          description  |-> OrElse(Trim(newTask.description), Trim(newTask.title)),
          priority     |-> newTask.priority,
          assignedTo   |-> newTask.assignedTo,
          projectId    |-> IdOrUndefined(newTask.projectId),
          parentTaskId |-> NoId])

\* ProjectDetail.handleCreateTask: the inline form of a project's detail view
DetailCreateTask(project, newTitle, newPriority, newAssignee) ==
  IF Trim(newTitle) = <<>>
  THEN Returned("createTask", "detail-form", NoId, NoTok)
  ELSE handleCreateTask("detail-form",
         [title        |-> Trim(newTitle),
          description  |-> Trim(newTitle),
          priority     |-> newPriority,
          assignedTo   |-> newAssignee,
          projectId    |-> project.id,
          parentTaskId |-> NoId])

\* TaskCaptureModal.handleSubmit: the quick-task modal
ModalCreateTask(title, priority, assignedTo, projectId) ==
  IF Trim(title) = <<>>
  THEN Returned("createTask", "quick-modal", NoId, NoTok)
  ELSE handleCreateTask("quick-modal",
         [title        |-> Trim(title),
          description  |-> Trim(title),
          priority     |-> priority,
          assignedTo   |-> assignedTo,
          projectId    |-> IdOrUndefined(projectId),
          parentTaskId |-> NoId])

\* the options of the modal's project <select>
ActiveProjectIds == {projects[i].id : i \in {j \in 1..Len(projects) :
                                                projects[j].status = "active"}}

\* the status buttons of a task card / the quick action of a TaskRow
NextStatus(status) ==
  CASE status = "pending" -> "in_progress"
    [] status = "in_progress" -> "review"
    [] status = "review" -> "completed"

StatusButton(taskId) ==
  /\ HasId(tasks, taskId)
  /\ Find(tasks, taskId).status # "completed"
  /\ handleUpdateTaskStatus("button", taskId, NextStatus(Find(tasks, taskId).status))

\* Faulty variant of handleDrop: only a move to the next status is accepted.
handleDrop_ForwardOnly(taskId, targetStatus) ==
  IF /\ HasId(tasks, taskId)
     /\ Find(tasks, taskId).status # "completed"
     /\ targetStatus = NextStatus(Find(tasks, taskId).status)
  THEN handleUpdateTaskStatus("drop", taskId, targetStatus)
  ELSE Returned("updateTaskStatus", "drop", taskId, targetStatus)

\* Faulty variant of handleDrop: the "task.status !== targetStatus" test is
\* missing.
handleDrop_NoStatusTest(taskId, targetStatus) ==
  IF HasId(tasks, taskId)
  THEN handleUpdateTaskStatus("drop", taskId, targetStatus)
  ELSE Returned("updateTaskStatus", "drop", taskId, targetStatus)

\* TaskBoard.handleDrop: a card dropped on a column
handleDrop(taskId, targetStatus) ==
  IF HasId(tasks, taskId) /\ Find(tasks, taskId).status # targetStatus
  THEN handleUpdateTaskStatus("drop", taskId, targetStatus)
  ELSE Returned("updateTaskStatus", "drop", taskId, targetStatus)

\* TaskBoard.saveEdit: the inline edit of a title or a description
saveEdit(taskId, field, editValue) ==
  handleUpdateTask("edit", taskId,
                   IF field = "title" THEN [title |-> editValue]
                   ELSE [description |-> editValue])

\* EditableText.save under TaskRow: calls onSave only when the draft differs
RowSaveTitle(taskId, draft) ==
  /\ HasId(tasks, taskId)
  /\ IF draft # Find(tasks, taskId).title
     THEN handleUpdateTask("row-edit", taskId, [title |-> draft])
     ELSE Returned("updateTask", "row-edit", taskId, NoTok)

handlePriorityChange(taskId, priority) ==
  handleUpdateTask("priority", taskId, [priority |-> priority])

handleAssigneeChange(taskId, assignedTo) ==
  handleUpdateTask("assignee", taskId, [assignedTo |-> assignedTo])

\* Faulty variant of handleProjectChange: only the projectId is sent, the
\* denormalized name and short code stay as they were.
handleProjectChange_IdOnly(taskId, projectId) ==
  handleUpdateTask("project", taskId, [projectId |-> IdOrUndefined(projectId)])

\* TaskBoard.handleProjectChange: the project <select> of a task card
handleProjectChange(taskId, projectId) ==
  LET found == HasId(projects, projectId)
  IN handleUpdateTask("project", taskId,
       [projectId        |-> IdOrUndefined(projectId),
        projectName      |-> IF found THEN StripPrefix(Find(projects, projectId).title)
                             ELSE NoStr,
        projectShortCode |-> IF found
                             THEN OrUndefined(Find(projects, projectId).shortCode)
                             ELSE NoStr])

\* the parent-task <select> of a task card
ParentChange(taskId, parentId) ==
  handleUpdateTask("parent", taskId, [parentTaskId |-> IdOrUndefined(parentId)])

\* the options of the parent-task <select>: top-level tasks other than the task
ParentOptions(taskId) ==
  {tasks[i].id : i \in {j \in 1..Len(tasks) :
                          tasks[j].id # taskId /\ tasks[j].parentTaskId = NoId}}

\* TaskBoard.handleDeleteTask, after the confirmation
ConfirmDeleteTask(taskId) == handleDeleteTask("board", taskId)

(***************************************************************************)
(* Values derived from the collections on every render.                    *)
(***************************************************************************)
\* AuthenticatedApp.pendingTaskCount: the badge of the sidebar and of the
\* quick-task button
pendingTaskCount ==
  Len(SelectSeq(tasks, LAMBDA t : t.assignedTo = Tiger /\ t.status # "completed"))

\* Dashboard.tigerTasks
tigerTasks == SelectSeq(tasks, LAMBDA t : t.assignedTo = Tiger)

\* Faulty variant of pendingTiger: tasks in review are not counted.
pendingTiger_NoReview ==
  SelectSeq(tigerTasks, LAMBDA t : t.status = "pending" \/ t.status = "in_progress")

\* Dashboard.pendingTiger: the "N tasks" of the briefing banner
pendingTiger ==
  SelectSeq(tigerTasks, LAMBDA t : \/ t.status = "pending"
                                   \/ t.status = "in_progress"
                                   \/ t.status = "review")

\* Math.round((done / total) * 100), 0 when there is no task
Percent(done, total) ==
  IF total > 0 THEN (200 * done + total) \div (2 * total) ELSE 0

\* ProjectDetail.projectTasks / getProjectTasks of the project list
projectTasks(project) == SelectSeq(tasks, LAMBDA t : t.projectId = project.id)

\* ProjectDetail.doneTasks
doneTasks(project) == SelectSeq(projectTasks(project), LAMBDA t : t.status = "completed")

\* the progress ProjectDetail and the project list show
DetailProgress(project) ==
  Percent(Len(doneTasks(project)), Len(projectTasks(project)))

\* the progress the Dashboard's "Active Projects" summary shows
DashboardProgress(project) ==
  Percent(project.completedTaskCount, project.taskCount)

(***************************************************************************)
(* Inputs: what the dashboard fetch returns and what the operator types.   *)
(***************************************************************************)
\* remote status tokens: the four the mapper knows and one it does not
StatusTokens == {"todo", "in_progress", "done", "failed", "blocked"}

RawAgents ==
  << [id |-> <<"ra", 1>>, functional_name |-> "Chief", handle |-> "@CEA",
      is_active |-> TRUE] >>

RawProjects ==
  << [id |-> <<"rp", 1>>, title |-> TitleGrowth, status |-> "active",
      description |-> NoStr, parent_project_id |-> NoId],
     [id |-> <<"rp", 2>>, title |-> <<"o","p","s">>, status |-> "paused",
      description |-> NoStr, parent_project_id |-> <<"rp", 1>>] >>

RawTask(token) ==
  [id |-> <<"rt", 1>>, description |-> <<"S","h","i","p">>,
   assigned_to |-> <<"ra", 1>>, priority |-> 2, status |-> token,
   project_id |-> <<"rp", 1>>, parent_task_id |-> NoId]

RawGoal(progress) ==
  [id |-> <<"rg", 1>>, title |-> <<"G","r","o","w">>, progress |-> progress,
   status |-> "on-track"]

RawActivity ==
  << [id |-> <<"ract", 1>>, agent_handle |-> "@CEA", action |-> "Completed",
      detail |-> <<"S","h","i","p">>, action_type |-> "task"] >>

RawMessages ==
  << [id |-> <<"rm", 1>>, from_type |-> "human", message_type |-> "message"] >>

Dashboard(rawTasks, rawGoals) ==
  [agents |-> RawAgents, tasks |-> rawTasks, projects |-> RawProjects,
   goals |-> rawGoals, activity |-> RawActivity, messages |-> RawMessages]

\* an answer with empty lists leaves the mock collections in place
EmptyDashboard ==
  [agents |-> <<>>, tasks |-> <<>>, projects |-> <<>>, goals |-> <<>>,
   activity |-> <<>>, messages |-> <<>>]

TaskDashboards ==
  {Dashboard(<<RawTask(token)>>, <<>>) : token \in StatusTokens} \cup {EmptyDashboard}

\* remote priority codes: the five the mapper knows, two it does not, and
\* -1 for a row that has no priority

\* answers whose task row carries any of these priorities and any status
\* token, or no status at all, and belongs to either of the two projects
MapperDashboards ==
  {Dashboard(<<[RawTask(token) EXCEPT !.priority = p, !.project_id = pid]>>, <<>>) :
     p \in (0..6) \cup {0 - 1}, token \in StatusTokens \cup {NoTok},
     pid \in {<<"rp", 1>>, <<"rp", 2>>}}

\* titles typed into a create form or passed to the engine
TypedTitles == {TitlePadded, TitleBlank}
\* values typed into an inline edit
EditValues == {TitleEdited, <<>>}

ProjectChoices == Ids(projects) \cup {EmptySel}

NewTaskForms ==
  [title : TypedTitles, description : {<<>>}, priority : {"medium"},
   assignedTo : {Tiger}, projectId : ProjectChoices]

TaskDatas ==
  [title : TypedTitles, description : {TitleDraft}, priority : {"medium"},
   assignedTo : {Tiger}, projectId : Ids(projects) \cup {NoId},
   parentTaskId : {NoId}]

ProjectDatas ==
  [title : {<<"o","p","s">>}, description : {NoStr},
   parentProjectId : Ids(projects) \cup {NoId}]

ProjectPatches == {[status |-> "paused"], [description |-> TitleEdited]}


(***************************************************************************)
(* Specification of the task and project slice.                            *)
(***************************************************************************)
TaskStep ==
  \/ \E f \in NewTaskForms : BoardCreateTask(f)
  \/ \E i \in 1..Len(projects), t \in TypedTitles :
       DetailCreateTask(projects[i], t, "medium", Tiger)
  \/ \E t \in TypedTitles, pid \in ActiveProjectIds \cup {EmptySel} :
       ModalCreateTask(t, "medium", Tiger, pid)
  \/ \E d \in TaskDatas : handleCreateTask("engine", d)
  \/ \E id \in Ids(tasks) : StatusButton(id)
  \/ \E id \in Ids(tasks), st \in Statuses : handleDrop(id, st)
  \/ \E id \in Ids(tasks), f \in {"title", "description"}, v \in EditValues :
       saveEdit(id, f, v)
  \/ \E id \in Ids(tasks), v \in EditValues : RowSaveTitle(id, v)
  \/ \E id \in Ids(tasks), pr \in {"high"} : handlePriorityChange(id, pr)
  \/ \E id \in Ids(tasks), a \in Ids(agents) : handleAssigneeChange(id, a)
  \/ \E id \in Ids(tasks), pid \in ProjectChoices : handleProjectChange(id, pid)
  \/ \E id \in Ids(tasks) : \E par \in ParentOptions(id) \cup {EmptySel} :
       ParentChange(id, par)
  \/ \E id \in Ids(tasks) : ConfirmDeleteTask(id)

Settled == \E i \in 1..Len(inflight), o \in {"ok", "empty", "fail"} : Resolve(i, o)

Next ==
  \/ \E d \in TaskDashboards : LoadDataOk(d)
  \/ LoadDataFail
  \/ Tick
  \/ Settled
  \/ ops < MaxOps /\ TaskStep

Spec == Init /\ [][Next]_vars

(***************************************************************************)
(* Specification of the project slice: the project handlers, with the      *)
(* task operations that attach tasks to projects.                          *)
(***************************************************************************)
ProjectStep ==
  \/ \E d \in ProjectDatas : handleCreateProject("engine", d)
  \/ \E id \in Ids(projects), u \in ProjectPatches : handleUpdateProject("detail", id, u)
  \/ \E id \in Ids(projects) : handleDeleteProject("detail", id)
  \/ \E id \in Ids(tasks), pid \in ProjectChoices : handleProjectChange(id, pid)
  \/ \E i \in 1..Len(projects), t \in TypedTitles :
       DetailCreateTask(projects[i], t, "medium", Tiger)

NextProject ==
  \/ \E d \in TaskDashboards : LoadDataOk(d)
  \/ LoadDataFail
  \/ Tick
  \/ Settled
  \/ ops < MaxOps /\ ProjectStep

SpecProject == Init /\ [][NextProject]_vars

(***************************************************************************)
(* Strategy view: goals.  The progress editor keeps its own state          *)
(* (editingProgress, progressValue) between its events.                    *)
(***************************************************************************)
\* parseInt(e.target.value) || 0 of what the operator typed, then
\* Math.min(100, Math.max(0, v))
Clamp(v) == Min(100, Max(0, v))

\* a click on the progress display of a goal that is not being edited
startProgressEdit(goalId, currentProgress) ==
  /\ strategy.editingProgress # goalId
  /\ strategy' = [editingProgress |-> goalId, progressValue |-> currentProgress]
  /\ UNCHANGED <<tasks, projects, goals, featureRequests, agents, activity,
                 messages, threadId, isLive, loading, boot, inflight, timers,
                 remote, minted, now, currentView, selectedProjectId, selectedAgentId, requested, ops, last>>

\* onChange of the progress input, shown for the goal being edited
ChangeProgress(typed) ==
  /\ strategy.editingProgress # NoId
  /\ HasId(goals, strategy.editingProgress)
  /\ strategy' = [strategy EXCEPT !.progressValue = Clamp(typed)]
  /\ UNCHANGED <<tasks, projects, goals, featureRequests, agents, activity,
                 messages, threadId, isLive, loading, boot, inflight, timers,
                 remote, minted, now, currentView, selectedProjectId, selectedAgentId, requested, ops, last>>

\* Enter or the save button of the progress input
saveProgress(goalId) ==
  /\ strategy.editingProgress = goalId
  /\ HasId(goals, goalId)
  /\ handleUpdateGoal("progress", goalId, [progress |-> strategy.progressValue])
  /\ strategy' = [strategy EXCEPT !.editingProgress = NoId]

\* Escape or Cancel
CancelProgress ==
  /\ strategy.editingProgress # NoId
  /\ strategy' = [strategy EXCEPT !.editingProgress = NoId]
  /\ UNCHANGED <<tasks, projects, goals, featureRequests, agents, activity,
                 messages, threadId, isLive, loading, boot, inflight, timers,
                 remote, minted, now, currentView, selectedProjectId, selectedAgentId, requested, ops, last>>

\* the status buttons of a goal
GoalStatusClick(goalId, status) ==
  /\ handleUpdateGoal("status", goalId, [status |-> status])
  /\ UNCHANGED strategy

\* Strategy.handleCreateGoal: the create form
StrategyCreateGoal(newTitle) ==
  IF Trim(newTitle) = <<>>
  THEN Returned("createGoal", "goal-form", NoId, NoTok)
  ELSE /\ handleCreateGoal("goal-form", [title |-> Trim(newTitle)])
       /\ UNCHANGED strategy

\* Strategy.handleDeleteGoal, after the confirmation
ConfirmDeleteGoal(goalId) ==
  /\ handleDeleteGoal("strategy", goalId)
  /\ UNCHANGED strategy

\* progress values the remote store may hold, and values the operator types

GoalDashboards ==
  {Dashboard(<<>>, <<RawGoal(p)>>) : p \in {40, 150, 0 - 5}} \cup {EmptyDashboard}

GoalStep ==
  \/ \E t \in TypedTitles : StrategyCreateGoal(t)
  \/ \E id \in Ids(goals) : saveProgress(id)
  \/ \E id \in Ids(goals) : GoalStatusClick(id, "at-risk")
  \/ \E id \in Ids(goals) : ConfirmDeleteGoal(id)

NextGoal ==
  \/ \E d \in GoalDashboards : LoadDataOk(d)
  \/ LoadDataFail
  \/ Tick
  \/ Settled
  \/ \E i \in 1..Len(goals) : startProgressEdit(goals[i].id, goals[i].progress)
  \/ \E v \in {0 - 5, 50, 250} : ChangeProgress(v)
  \/ CancelProgress
  \/ ops < MaxOps /\ GoalStep

SpecGoal == Init /\ [][NextGoal]_vars

(***************************************************************************)
(* Specification of the whole mutation engine: every handler, called with  *)
(* one representative input each.                                          *)
(***************************************************************************)
MaxEngineOps == 2


EngineStep ==
  \/ \E id \in Ids(tasks) : handleUpdateTaskStatus("engine", id, "completed")
  \/ \E id \in Ids(tasks) : handleUpdateTask("engine", id, [priority |-> "high"])
  \/ handleCreateTask("engine",
       [title |-> TitleDraft, description |-> TitleDraft, priority |-> "medium",
        assignedTo |-> Tiger, projectId |-> NoId, parentTaskId |-> NoId])
  \/ \E id \in Ids(tasks) : handleDeleteTask("engine", id)
  \/ \E id \in Ids(projects) : handleUpdateProject("engine", id, [status |-> "paused"])
  \/ handleCreateProject("engine", [title |-> <<"o","p","s">>, description |-> NoStr,
                                    parentProjectId |-> NoId])
  \/ \E id \in Ids(projects) : handleDeleteProject("engine", id)
  \/ \E id \in Ids(goals) :
       handleUpdateGoal("engine", id, [progress |-> 50]) /\ UNCHANGED strategy
  \/ handleCreateGoal("engine", [title |-> TitleDraft]) /\ UNCHANGED strategy
  \/ \E id \in Ids(goals) : handleDeleteGoal("engine", id) /\ UNCHANGED strategy
  \/ handleCreateFeatureRequest("engine", [title |-> TitleDraft, priority |-> "medium"])
  \/ \E id \in Ids(featureRequests) :
       handleUpdateFeatureRequest("engine", id, [status |-> "acknowledged"])
  \/ \E id \in Ids(featureRequests) : handleDeleteFeatureRequest("engine", id)
  \/ \E id \in Ids(agents) : handleUpdateAgent("engine", id, [is_active |-> FALSE])
  \/ handleSpawnAgent("engine", "Scout", "Research")
  \/ \E content \in {"question", "statement"} : handleSendMessage("engine", content)

EngineDashboards == {Dashboard(<<RawTask("todo")>>, <<RawGoal(40)>>), EmptyDashboard}

NextAll ==
  \/ \E d \in EngineDashboards : LoadDataOk(d)
  \/ LoadDataFail
  \/ Tick
  \/ Settled
  \/ \E i \in 1..Len(timers) : FireTimer(i)
  \/ ops < MaxEngineOps /\ EngineStep

SpecAll == InitAll /\ [][NextAll]_vars

(***************************************************************************)
(* Specification of the mapper layer: the bootstrap over every remote      *)
(* priority and status, followed by status write-backs.                    *)
(***************************************************************************)
MaxMapOps == 1

NextMapper ==
  \/ \E d \in MapperDashboards : LoadDataOk(d)
  \/ \E d \in MapperDashboards :
       LoadDataThrows([d EXCEPT !.projects = <<[RawProjects[1] EXCEPT !.title = NoStr]>>])
  \/ LoadDataFail
  \/ Tick
  \/ Settled
  \/ ops < MaxMapOps /\ \E id \in Ids(tasks), st \in Statuses : handleDrop(id, st)

SpecMapper == Init /\ [][NextMapper]_vars

(***************************************************************************)
(* Specification of the primary action buttons: the only operation is a    *)
(* click on the status button of a task card or task row.                  *)
(***************************************************************************)
MaxButtonOps == 3

NextButtons ==
  \/ \E d \in TaskDashboards : LoadDataOk(d)
  \/ LoadDataFail
  \/ Tick
  \/ Settled
  \/ ops < MaxButtonOps /\ \E id \in Ids(tasks) : StatusButton(id)

SpecButtons == Init /\ [][NextButtons]_vars

(***************************************************************************)
(* View routing: currentView and the two selections.  onOpenProject,       *)
(* onViewAgent and every call of setCurrentView are steps of their own.    *)
(***************************************************************************)
\* Sidebar.navItems
navItems == {"dashboard", "projects", "agents", "tasks", "chat", "strategy"}

\* Faulty variant of setCurrentView: leaving a detail view clears its
\* selection.
setCurrentView_Clearing(via, view) ==
  /\ via = "sidebar" /\ view \in navItems
  /\ currentView' = view
  /\ selectedProjectId' = NoId
  /\ selectedAgentId' = NoId
  /\ last' = [op |-> "navigate", via |-> via, view |-> view]
  /\ UNCHANGED <<tasks, projects, goals, featureRequests, agents, activity,
                 messages, threadId, isLive, loading, boot, inflight, timers,
                 remote, minted, now, ops, strategy, requested>>

\* setCurrentView as the views call it: the sidebar (onViewChange), the links
\* of the dashboard (onNavigate), ProjectsView.onNavigateToTask and the back
\* buttons of the two detail views, each offered only where it is rendered
setCurrentView(via, view) ==
  /\ CASE via = "sidebar" -> view \in navItems
       [] via = "dashboard" ->
            currentView = "dashboard" /\ view \in {"tasks", "projects"}
       [] via = "projects" -> currentView = "projects" /\ view = "tasks"
       [] via = "project-back" ->
            /\ currentView = "project-detail"
            /\ HasId(projects, selectedProjectId)
            /\ view = "projects"
       [] via = "agent-back" ->
            /\ currentView = "agent-detail"
            /\ HasId(agents, selectedAgentId)
            /\ view = "agents"
  /\ currentView' = view
  /\ last' = [op |-> "navigate", via |-> via, view |-> view]
  /\ UNCHANGED <<tasks, projects, goals, featureRequests, agents, activity,
                 messages, threadId, isLive, loading, boot, inflight, timers,
                 remote, minted, now, ops, strategy, requested,
                 selectedProjectId, selectedAgentId>>

\* Faulty variant of onOpenProject: the view changes, the selection does not.
onOpenProject_ViewOnly(id) ==
  /\ currentView = "projects"
  /\ currentView' = "project-detail"
  /\ last' = [op |-> "openProject", id |-> id]
  /\ UNCHANGED <<tasks, projects, goals, featureRequests, agents, activity,
                 messages, threadId, isLive, loading, boot, inflight, timers,
                 remote, minted, now, ops, strategy, requested,
                 selectedProjectId, selectedAgentId>>

\* onOpenProject={(id) => { setSelectedProjectId(id); setCurrentView('project-detail'); }}
onOpenProject(id) ==
  /\ currentView = "projects"
  /\ selectedProjectId' = id
  /\ currentView' = "project-detail"
  /\ last' = [op |-> "openProject", id |-> id]
  /\ UNCHANGED <<tasks, projects, goals, featureRequests, agents, activity,
                 messages, threadId, isLive, loading, boot, inflight, timers,
                 remote, minted, now, ops, strategy, requested, selectedAgentId>>

\* onViewAgent={(id) => { setSelectedAgentId(id); setCurrentView('agent-detail'); }}
onViewAgent(id) ==
  /\ currentView = "agents"
  /\ selectedAgentId' = id
  /\ currentView' = "agent-detail"
  /\ last' = [op |-> "viewAgent", id |-> id]
  /\ UNCHANGED <<tasks, projects, goals, featureRequests, agents, activity,
                 messages, threadId, isLive, loading, boot, inflight, timers,
                 remote, minted, now, ops, strategy, requested, selectedProjectId>>

(***************************************************************************)
(* Specification of the view routing, with the deletion of a project from  *)
(* the projects view as the one mutation.                                  *)
(***************************************************************************)
MaxNavOps == 1

NextNav ==
  \/ \E d \in TaskDashboards : LoadDataOk(d)
  \/ LoadDataFail
  \/ Tick
  \/ Settled
  \/ \E via \in {"sidebar", "dashboard", "projects", "project-back", "agent-back"} :
       \E view \in navItems : setCurrentView(via, view)
  \/ \E id \in Ids(projects) : onOpenProject(id)
  \/ \E id \in Ids(agents) : onViewAgent(id)
  \/ /\ ops < MaxNavOps
     /\ currentView = "projects"
     /\ \E id \in Ids(projects) : handleDeleteProject("projects", id)

SpecNav == Init /\ [][NextNav]_vars

(***************************************************************************)
(* Specification of the sub-task operations: the parent selector and the   *)
(* deletion of a task, over a board of three loaded top-level tasks.       *)
(***************************************************************************)
MaxSubtaskOps == 2

NextSubtasks ==
  \/ \E d \in {Dashboard([k \in 1..3 |-> [RawTask("todo") EXCEPT !.id = <<"rt", k>>]],
                           <<>>), EmptyDashboard} : LoadDataOk(d)
  \/ LoadDataFail
  \/ Tick
  \/ Settled
  \/ ops < MaxSubtaskOps
       /\ \E id \in Ids(tasks) : \E par \in ParentOptions(id) \cup {EmptySel} :
            ParentChange(id, par)
  \/ ops < MaxSubtaskOps /\ \E id \in Ids(tasks) : ConfirmDeleteTask(id)

SpecSubtasks == Init /\ [][NextSubtasks]_vars

(***************************************************************************)
(* Properties.                                                             *)
(***************************************************************************)
\* the step just taken is an invocation of the engine or of a view handler
Invoked == ops' = ops + 1

\* the step just taken is the settling of a pending remote call
Resolved == Len(inflight') = Len(inflight) - 1 /\ last'.op = "resolve"

\* every task with the id carries the fields of the patch
Carries(coll, id, patch) ==
  \A i \in 1..Len(coll) : coll[i].id = id =>
    \A f \in DOMAIN patch : coll[i][f] = patch[f]

\* C1: in live mode every mutation handler commits its change to the local
\* collection synchronously on invocation: in the state right after the
\* invocation, while the remote call is still pending, a status update shows
\* the requested status, a field update shows the patch, a creation shows the
\* new task and a deletion has removed the task.
C1_CommitOnInvocation ==
  (last.op \in {"updateTaskStatus", "updateTask", "createTask", "deleteTask"}
     /\ last.called /\ last.live)
  => CASE last.op = "updateTaskStatus" ->
            Carries(tasks, last.id, [status |-> last.status])
       [] last.op = "updateTask" -> Carries(tasks, last.id, last.patch)
       [] last.op = "createTask" -> HasId(tasks, last.id)
       [] last.op = "deleteTask" -> ~HasId(tasks, last.id)

\* C2: when the remote create succeeds, reconciliation changes only the id of
\* the created task: the task that carried the temporary id (the only one
\* with that id) keeps every other field as it was just before the response,
\* local edits included, and no other task changes.
C2_ReconcileChangesOnlyId ==
  [][(/\ last'.op = "resolve" /\ last'.of = "createTask" /\ last'.outcome = "ok"
      /\ Cardinality({i \in 1..Len(tasks) : tasks[i].id = last'.id}) = 1)
       => /\ Len(tasks') = Len(tasks)
          /\ \A i \in 1..Len(tasks) :
               tasks'[i] = IF tasks[i].id = last'.id
                           THEN [tasks[i] EXCEPT !.id = RealId]
                           ELSE tasks[i]]_vars

\* C3: when the remote call of a handler fails, the rest of the handler makes
\* no change to any entity collection: nothing is rolled back, nothing else
\* is changed, and a created entity keeps its temporary id.
C3_FailureLeavesCollections ==
  [][(last'.op = "resolve" /\ last'.outcome = "fail")
       => UNCHANGED <<tasks, projects, goals, featureRequests, agents>>]_vars

\* the effect of the last engine call is present in the local collections
LocalEffect ==
  CASE last.op = "updateTaskStatus" ->
         Carries(tasks, last.id, [status |-> last.status])
    [] last.op = "updateTask" -> Carries(tasks, last.id, last.patch)
    [] last.op = "createTask" -> HasId(tasks, last.id)
    [] last.op = "deleteTask" -> ~HasId(tasks, last.id)
    [] last.op = "updateProject" -> Carries(projects, last.id, last.patch)
    [] last.op = "createProject" -> HasId(projects, last.id)
    [] last.op = "deleteProject" -> ~HasId(projects, last.id)
    [] last.op = "updateGoal" -> Carries(goals, last.id, last.patch)
    [] last.op = "createGoal" -> HasId(goals, last.id)
    [] last.op = "deleteGoal" -> ~HasId(goals, last.id)
    [] last.op = "createFeatureRequest" -> HasId(featureRequests, last.id)
    [] last.op = "updateFeatureRequest" ->
         Carries(featureRequests, last.id, last.patch)
    [] last.op = "deleteFeatureRequest" -> ~HasId(featureRequests, last.id)
    [] last.op = "updateAgent" ->
         Carries(agents, last.id,
                 [status |-> IF last.patch.is_active THEN "active" ELSE "idle"])
    [] last.op = "spawnAgent" -> HasId(agents, last.id)
    [] last.op = "sendMessage" -> HasId(messages, last.id)
    [] OTHER -> TRUE

\* C4: once the bootstrap fetch has failed, isLive is false in every later
\* state, no handler (task, project, goal, idea, agent, chat) has handed a
\* request to the Remote Gateway or is waiting for one, and the mutation just
\* invoked has taken effect in the local state.
C4_FailedBootstrapStaysLocal ==
  boot = "failed" =>
    /\ ~isLive
    /\ remote = {}
    /\ \A i \in 1..Len(inflight) : inflight[i].op = "loadFeatureRequests"
    /\ ("called" \in DOMAIN last /\ last.called) => LocalEffect

\* C4 witness: after a failed bootstrap a task was deleted: it is gone from
\* the local collection and its activity item is written.
C4_Witness ==
  /\ boot = "failed"
  /\ last.op = "deleteTask"
  /\ ~HasId(tasks, last.id)
  /\ activity[1].action = "Deleted task"

\* C5: a step that deletes project P leaves P absent, gives every task that
\* pointed at P an undefined projectId, projectName and projectShortCode,
\* gives every child project of P an undefined parentProjectId, removes no
\* task and no other project, and changes nothing else in them.
C5_DeleteProjectUnlinks ==
  [][(last'.op = "deleteProject" /\ Invoked)
       => LET P    == last'.id
              kept == Without(projects, P)
          IN /\ ~HasId(projects', P)
             /\ Len(tasks') = Len(tasks)
             /\ \A i \in 1..Len(tasks) :
                  IF tasks[i].projectId = P
                  THEN /\ tasks'[i].projectId = NoId
                       /\ tasks'[i].projectName = NoStr
                       /\ tasks'[i].projectShortCode = NoStr
                       /\ tasks'[i].id = tasks[i].id
                  ELSE tasks'[i] = tasks[i]
             /\ Len(projects') = Len(kept)
             /\ \A i \in 1..Len(kept) :
                  IF kept[i].parentProjectId = P
                  THEN /\ projects'[i].parentProjectId = NoId
                       /\ projects'[i].id = kept[i].id
                  ELSE projects'[i] = kept[i]]_vars

\* C5 witness: a project was deleted while a task was in it and a child
\* project was under it; the task and the child are still there, unlinked.
C5_Witness ==
  /\ last.op = "deleteProject"
  /\ last.id = <<"rp", 1>>
  /\ \E i \in 1..Len(tasks) : tasks[i].id = <<"rt", 1>> /\ tasks[i].projectId = NoId
  /\ \E i \in 1..Len(projects) :
       projects[i].id = <<"rp", 2>> /\ projects[i].parentProjectId = NoId

\* the denormalized project fields of task t agree with the project collection
Denormalized(t) ==
  IF t.projectId = NoId
  THEN t.projectName = NoStr /\ t.projectShortCode = NoStr
  ELSE /\ HasId(projects, t.projectId)
       /\ t.projectShortCode = Find(projects, t.projectId).shortCode
       /\ t.projectName = StripPrefix(Find(projects, t.projectId).title)

C7_BlankTitleRejected ==
  [][(/\ last'.op = "createTask" /\ Invoked
      /\ (last'.called => Trim(last'.data.title) = <<>>))
       => UNCHANGED <<tasks, activity, remote>>]_vars

\* C8: dropping a task on the column of its current status does not invoke
\* the status mutation: tasks, activity and the remote calls stay as they are.
C8_DropOnOwnColumn ==
  [][(/\ last'.op = "updateTaskStatus" /\ last'.via = "drop" /\ Invoked
      /\ HasId(tasks, last'.id)
      /\ Find(tasks, last'.id).status = last'.status)
       => /\ ~last'.called
          /\ UNCHANGED <<tasks, activity, remote, inflight>>]_vars

\* C8 witness: in live mode a task was dropped on its own column and the
\* handler returned without calling the engine.
C8_Witness ==
  /\ last.op = "updateTaskStatus"
  /\ last.via = "drop"
  /\ ~last.called
  /\ last.live
  /\ HasId(tasks, last.id)
  /\ Find(tasks, last.id).status = last.status

\* C9: the status of every task is always one of pending, in_progress,
\* review, completed, whatever token the bootstrap mapped and whatever
\* operations followed.
C9_StatusInEnumeration ==
  \A i \in 1..Len(tasks) : tasks[i].status \in Statuses

\* C9 witness: the dashboard carried a token the mapper does not know and the
\* task was mapped to pending.
C9_Witness ==
  /\ last.op = "loadOk"
  /\ "blocked" \in last.tokens
  /\ \E i \in 1..Len(tasks) : tasks[i].id = <<"rt", 1>> /\ tasks[i].status = "pending"

\* C10: the progress of every goal is within 0..100 in every reachable
\* state, remote-mapped goals included.
C10_ProgressInRange ==
  \A i \in 1..Len(goals) : 0 <= goals[i].progress /\ goals[i].progress <= 100

\* C11: the pending-task counter, as the application shell computes it for
\* the sidebar badge and as the dashboard computes it for its banner, equals
\* in every reachable state the number of tasks assigned to 'tiger' whose
\* status is not completed.
C11_PendingCount ==
  LET n == Cardinality({i \in 1..Len(tasks) :
                          tasks[i].assignedTo = Tiger /\ tasks[i].status # "completed"})
  IN pendingTaskCount = n /\ Len(pendingTiger) = n

\* C11 witness: a task of the operator was reassigned to an agent and the
\* counter has dropped to zero although the task is still there, uncompleted.
C11_Witness ==
  /\ last.op = "updateTask"
  /\ last.called
  /\ "assignedTo" \in DOMAIN last.patch
  /\ last.patch.assignedTo # Tiger
  /\ HasId(tasks, last.id)
  /\ Find(tasks, last.id).status # "completed"
  /\ pendingTaskCount = 0

C14_StatusRoundTrip ==
  (last.op = "updateTaskStatus" /\ last.called /\ last.live) =>
    LET sent == CASE last.status = "pending" -> "todo"
                  [] last.status = "in_progress" -> "in_progress"
                  [] last.status = "review" -> "in_progress"
                  [] last.status = "completed" -> "done"
    IN /\ Request("update-task-status", last.id, sent) \in remote
       /\ \A q \in remote :
            (q.op = "update-task-status" /\ q.id = last.id) =>
              q.tok \in {"todo", "in_progress", "done"}
       /\ MapStatus(sent) = IF last.status = "review" THEN "in_progress"
                            ELSE last.status

\* C14 witness: a task was moved to review in live mode; in_progress was sent
\* and maps back to in_progress.
C14_Witness ==
  /\ last.op = "updateTaskStatus"
  /\ last.called
  /\ last.live
  /\ last.status = "review"
  /\ Request("update-task-status", last.id, "in_progress") \in remote
  /\ MapStatus("in_progress") = "in_progress"

\* C15: the shortCode of every project is the word-character token that
\* follows the leading "PR." of its title when the title has one, and
\* otherwise the first four characters of the title in upper case, whether
\* the project was mapped from a remote row or created locally.
C15_ShortCodeDerivation ==
  \A i \in 1..Len(projects) :
    projects[i].shortCode =
      IF MatchShortCode(projects[i].title) # <<>>
      THEN MatchShortCode(projects[i].title)
      ELSE ToUpperCase(Substring0(projects[i].title, 4))

\* C16: a status update, field update or delete whose target id is not in
\* tasks changes neither tasks nor activity, both when it is invoked on such
\* an id and when the part of an update that runs after its remote call finds
\* the task gone (deleted while the update was waiting).
C16_GoneTargetIsNoOp ==
  [][/\ (/\ Invoked /\ last'.called
         /\ last'.op \in {"updateTaskStatus", "updateTask", "deleteTask"}
         /\ ~HasId(tasks, last'.id))
          => UNCHANGED <<tasks, activity>>
     /\ (/\ Resolved
         /\ last'.of \in {"updateTaskStatus", "updateTask"}
         /\ ~HasId(tasks, last'.id))
          => UNCHANGED <<tasks, activity>>]_vars

\* C17: once threadId is set it never changes, whatever replies arrive and
\* in whatever order, and every message sent while it is set carries it to
\* the Remote Gateway.
C17_ThreadIdStable ==
  [][/\ threadId # NoId => threadId' = threadId
     /\ (Invoked /\ last'.op = "sendMessage" /\ last'.live /\ threadId # NoId)
          => /\ last'.thread = threadId
             /\ Request("cea-brain", threadId, NoTok) \in remote']_vars

\* C18: the activity collection is append-only: every step leaves it as it
\* is or puts new items in front of it; the items already there stay, in the
\* same order and unmodified.
C18_ActivityAppendOnly ==
  [][\E k \in 0..Len(activity') :
       /\ Len(activity') = Len(activity) + k
       /\ SubSeq(activity', k + 1, Len(activity')) = activity]_vars

\* C19: for every project, the task count and completed-task count that the
\* project detail, the project list and the dashboard summary read, and the
\* progress they show, are those of the live task collection: the number of
\* tasks whose projectId is the project's id, and of those the completed ones.
C19_ProjectCountsLive ==
  \A i \in 1..Len(projects) :
    LET project == projects[i]
        mine == {j \in 1..Len(tasks) : tasks[j].projectId = project.id}
        done == {j \in mine : tasks[j].status = "completed"}
    IN /\ Len(projectTasks(project)) = Cardinality(mine)
       /\ Len(doneTasks(project)) = Cardinality(done)
       /\ project.taskCount = Cardinality(mine)
       /\ project.completedTaskCount = Cardinality(done)
       /\ DashboardProgress(project) = DetailProgress(project)

\* C20: when two status changes S1 and then S2 have been requested for a
\* task and neither is still waiting for its remote call, the status of the
\* task is S2, in whatever order the two calls resolved.
C20_LastRequestWins ==
  \A i \in 1..Len(tasks) :
    (/\ tasks[i].id \in DOMAIN requested
     /\ Len(requested[tasks[i].id]) = 2
     /\ \A j \in 1..Len(inflight) :
          ~(inflight[j].op = "updateTaskStatus" /\ inflight[j].id = tasks[i].id))
    => tasks[i].status = requested[tasks[i].id][2]

\* C21: the activity item of a task, project or goal mutation is in the feed
\* as soon as the handler has been invoked, before its remote call settles
\* (and so also when the call never settles).
C21_ActivityBeforeRemote ==
  [][(/\ Invoked /\ last'.called /\ last'.live
      /\ last'.op \in {"updateTaskStatus", "updateTask", "createTask", "deleteTask",
                       "updateProject", "createProject", "deleteProject",
                       "updateGoal", "createGoal", "deleteGoal"})
       => /\ activity' = Prepend(activity'[1], activity)
          /\ activity'[1].agent = "Tiger"]_vars

\* no two entries of the collection have the same id
Distinct(coll) ==
  \A i, j \in 1..Len(coll) : i # j => coll[i].id # coll[j].id

\* C22: in every reachable state the ids within tasks, within goals, within
\* projects, within ideas and within activity are pairwise distinct, also
\* when two creations fall into the same clock millisecond.
C22_IdsDistinct ==
  /\ Distinct(tasks)
  /\ Distinct(goals)
  /\ Distinct(projects)
  /\ Distinct(featureRequests)
  /\ Distinct(activity)

C24_BootstrapKeepsLocalWork ==
  [][(boot = "fetching" /\ boot' = "ok")
       => /\ \A i \in 1..Len(tasks) :
               tasks[i].id[1] = "temp" => \E j \in 1..Len(tasks') : tasks'[j] = tasks[i]
          /\ \A i \in 1..Len(activity) :
               activity[i].id[1] = "a"
                 => \E j \in 1..Len(activity') : activity'[j] = activity[i]]_vars

\* C25: a mutation of a task, project, goal, idea or agent that is accepted
\* prepends exactly one activity item (offline: in the step of the
\* invocation); one that is rejected prepends none.
C25_OneItemPerMutation ==
  [][(/\ Invoked
      /\ last'.op \in {"updateTaskStatus", "updateTask", "createTask", "deleteTask",
                       "updateProject", "createProject", "deleteProject",
                       "updateGoal", "createGoal", "deleteGoal",
                       "createFeatureRequest", "updateFeatureRequest",
                       "deleteFeatureRequest", "updateAgent", "spawnAgent"})
       => IF last'.called
          THEN ~last'.live => activity' = Prepend(activity'[1], activity)
          ELSE activity' = activity]_vars

\* C26: right after a successful bootstrap load every task whose projectId
\* is the id of a loaded project carries that project's shortCode and its
\* prefix-stripped title, whether or not the title has the "PR.<CODE> |"
\* prefix.
C26_LoadDenormalizes ==
  last.op = "loadOk" =>
    \A i \in 1..Len(tasks) :
      HasId(projects, tasks[i].projectId) =>
        /\ tasks[i].projectShortCode = Find(projects, tasks[i].projectId).shortCode
        /\ tasks[i].projectName =
             StripPrefix(Find(projects, tasks[i].projectId).title)

\* C27: no request handed to the Remote Gateway targets a temporary id.
C27_NoTempIdSent ==
  \A q \in remote : q.id[1] # "temp"

\* C28: with the status buttons as the only operation, a click asks for the
\* successor of the status the task shows and is not offered for a completed
\* task, and no step moves the status of a task anywhere but to its
\* successor.
C28_ButtonsAdvanceOneStep ==
  [][/\ (Invoked /\ last'.op = "updateTaskStatus" /\ last'.via = "button")
          => /\ HasId(tasks, last'.id)
             /\ <<Find(tasks, last'.id).status, last'.status>> \in
                  {<<"pending", "in_progress">>, <<"in_progress", "review">>,
                   <<"review", "completed">>}
     /\ \A i \in 1..Len(tasks) : \A j \in 1..Len(tasks') :
          tasks'[j].id = tasks[i].id =>
            \/ tasks'[j].status = tasks[i].status
            \/ <<tasks[i].status, tasks'[j].status>> \in
                 {<<"pending", "in_progress">>, <<"in_progress", "review">>,
                  <<"review", "completed">>}]_vars

C30_MessagesAppendOnly ==
  [][/\ (Invoked /\ last'.op = "sendMessage")
          => /\ Len(messages') = Len(messages) + 1
             /\ SubSeq(messages', 1, Len(messages)) = messages
             /\ messages'[Len(messages')].from = "tiger"
     /\ \A i \in 1..Len(messages) :
          messages[i].id[1] # "mock-m"
            => \E j \in 1..Len(messages') : messages'[j] = messages[i]]_vars

\* C31: a spawn adds exactly one agent, at the end of the list: an agent
\* created locally (offline, or after a live spawn that failed or answered
\* without data) starts as spawning, an agent the remote store answered
\* starts as active or idle; and no step removes an agent that is spawning,
\* so that its settle timer finds it and makes it active.
C31_SpawnLifecycle ==
  [][/\ (Invoked /\ last'.op = "spawnAgent" /\ ~last'.live)
          => /\ Len(agents') = Len(agents) + 1
             /\ SubSeq(agents', 1, Len(agents)) = agents
             /\ agents'[Len(agents')].status = "spawning"
     /\ (Resolved /\ last'.of = "spawnAgent")
          => /\ Len(agents') = Len(agents) + 1
             /\ SubSeq(agents', 1, Len(agents)) = agents
             /\ agents'[Len(agents')].status =
                  IF last'.outcome = "ok" THEN "active" ELSE "spawning"
     /\ \A i \in 1..Len(agents) :
          agents[i].status = "spawning" => HasId(agents', agents[i].id)]_vars

\* a record the remote store answered: its id is one the store assigned
RemoteSourced(coll) ==
  \E i \in 1..Len(coll) :
    coll[i].id[1] \in {"ra", "rt", "rp", "rg", "ract", "rm", "rf", "real", "server"}

\* C32: once loadData has ended, loading is false, isLive is true exactly
\* when the fetch and the mapping completed without error, and when isLive
\* is false no collection holds a record that came from the remote store.
C32_BootstrapOutcome ==
  boot # "fetching" =>
    /\ ~loading
    /\ isLive <=> boot = "ok"
    /\ ~isLive => /\ ~RemoteSourced(agents)
                  /\ ~RemoteSourced(tasks)
                  /\ ~RemoteSourced(projects)
                  /\ ~RemoteSourced(goals)
                  /\ ~RemoteSourced(activity)
                  /\ ~RemoteSourced(messages)

\* C33: no step gives an existing task an empty or whitespace-only title:
\* a task whose title has visible text keeps a title with visible text
\* through every inline edit.
C33_TitleNeverBlank ==
  [][\A i \in 1..Len(tasks) : \A j \in 1..Len(tasks') :
       (tasks'[j].id = tasks[i].id /\ Trim(tasks[i].title) # <<>>)
         => Trim(tasks'[j].title) # <<>>]_vars

\* C34: task nesting is single-level: no task is its own parent, and the
\* parent of a task has no parent itself.
C34_SingleLevelNesting ==
  \A i \in 1..Len(tasks) :
    /\ tasks[i].parentTaskId # tasks[i].id
    /\ (tasks[i].parentTaskId # NoId /\ HasId(tasks, tasks[i].parentTaskId))
         => Find(tasks, tasks[i].parentTaskId).parentTaskId = NoId

\* C35: an update of a task, a project or a goal with a partial patch gives
\* the entity with the id the fields of the patch and leaves its other
\* fields, every other entity of the collection, the order and the length
\* of the collection and the two other collections as they were; the step
\* in which the remote call settles changes none of the three collections.
C35_PatchFrame ==
  [][/\ (Invoked /\ last'.op \in {"updateTask", "updateProject", "updateGoal"}
           /\ last'.called)
          => LET old == CASE last'.op = "updateTask" -> tasks
                          [] last'.op = "updateProject" -> projects
                          [] OTHER -> goals
                 new == CASE last'.op = "updateTask" -> tasks'
                          [] last'.op = "updateProject" -> projects'
                          [] OTHER -> goals'
             IN /\ Len(new) = Len(old)
                /\ \A i \in 1..Len(old) :
                     IF old[i].id # last'.id THEN new[i] = old[i]
                     ELSE /\ DOMAIN new[i] = DOMAIN old[i] \cup DOMAIN last'.patch
                          /\ \A f \in DOMAIN new[i] :
                               new[i][f] = IF f \in DOMAIN last'.patch
                                           THEN last'.patch[f] ELSE old[i][f]
                /\ last'.op # "updateTask" => tasks' = tasks
                /\ last'.op # "updateProject" => projects' = projects
                /\ last'.op # "updateGoal" => goals' = goals
     /\ (Resolved /\ last'.of \in {"updateTask", "updateProject", "updateGoal"})
          => UNCHANGED <<tasks, projects, goals>>]_vars

\* C35 witness: with two tasks in the store, one was updated with a patch of
\* its priority alone: it has the new priority and its own title, the other
\* task has another priority.
C35_Witness ==
  /\ last.op = "updateTask"
  /\ last.called
  /\ last.patch = [priority |-> "high"]
  /\ Len(tasks) = 2
  /\ \E i, j \in 1..Len(tasks) :
       /\ tasks[i].id = last.id
       /\ tasks[i].priority = "high"
       /\ tasks[i].title # NoStr
       /\ tasks[j].id # last.id
       /\ tasks[j].priority # "high"

\* C36: handleDeleteTask(id) removes the task with the id and nothing else:
\* the other tasks stay, unchanged and in their order, also those whose
\* parentTaskId is the id; the step in which the remote call settles leaves
\* the tasks as they are.
C36_DeleteRemovesOnlyTarget ==
  [][/\ (Invoked /\ last'.op = "deleteTask" /\ last'.called)
          => LET keep == {i \in 1..Len(tasks) : tasks[i].id # last'.id}
             IN /\ Len(tasks') = Cardinality(keep)
                /\ ~HasId(tasks', last'.id)
                /\ \A i \in keep :
                     tasks'[Cardinality({k \in keep : k <= i})] = tasks[i]
     /\ (Resolved /\ last'.of = "deleteTask") => tasks' = tasks]_vars

\* C36 witness: a task that has a sub-task was deleted; the sub-task is still
\* in the store and still names the deleted task as its parent.
C36_Witness ==
  /\ last.op = "deleteTask"
  /\ last.called
  /\ ~HasId(tasks, last.id)
  /\ \E i \in 1..Len(tasks) : tasks[i].parentTaskId = last.id

\* a step that calls setCurrentView and nothing else
Navigated ==
  /\ last'.op = "navigate"
  /\ last' # last \/ currentView' # currentView

\* C37: a navigation (sidebar, dashboard link, back button) changes neither
\* selection and no entity collection; selectedProjectId changes only in the
\* step that opens a project, selectedAgentId only in the step that opens an
\* agent, and neither step changes the other selection.
C37_NavigationKeepsSelections ==
  [][/\ Navigated
          => UNCHANGED <<selectedProjectId, selectedAgentId, tasks, projects, goals,
                         featureRequests, agents, activity, messages>>
     /\ selectedProjectId' # selectedProjectId
          => /\ last'.op = "openProject"
             /\ selectedProjectId' = last'.id
             /\ selectedAgentId' = selectedAgentId
     /\ selectedAgentId' # selectedAgentId
          => /\ last'.op = "viewAgent"
             /\ selectedAgentId' = last'.id
             /\ selectedProjectId' = selectedProjectId]_vars

\* C37 witness: a project and an agent were opened, and after a navigation
\* to the dashboard both selections are still set.
C37_Witness ==
  /\ last.op = "navigate"
  /\ currentView = "dashboard"
  /\ selectedProjectId # NoId
  /\ selectedAgentId # NoId

\* C38: whenever the view is project-detail a project is selected, and
\* whenever the view is agent-detail an agent is selected.
C38_DetailViewHasSelection ==
  /\ currentView = "project-detail" => selectedProjectId # NoId
  /\ currentView = "agent-detail" => selectedAgentId # NoId

\* C38 witness: the project detail view is showing, for a selected project
\* that is in the store.
C38_Witness ==
  /\ currentView = "project-detail"
  /\ last.op = "openProject"
  /\ selectedProjectId = last.id
  /\ HasId(projects, selectedProjectId)

====
